---------------------------- MODULE Spec2Model ----------------------------
(***************************************************************************)
(* Indian-Markets-dashboard: the in-memory market-data cache with its      *)
(* concurrent batch fetch (optimized_data_cache.py) and the rule-based     *)
(* decision engine (premarket_technical_analysis_engine.py), the persisted   *)
(* login session (zerodha_session_manager.py), the rate-limited quote fetch *)
(* (live_premarket_system.py) and the instrument list                      *)
(* (instrument_universe_manager.py).                                        *)
(*                                                                         *)
(* Time is counted in ticks of one minute.  Threads are "main" (the caller *)
(* of fetch_multiple_stocks_concurrent), "ui" (a second thread using the   *)
(* shared cache object) and the pool's tasks 1..MaxLen.                    *)
(***************************************************************************)
EXTENDS Integers, Sequences, FiniteSets, TLC

\* ------------------------------------------------------------------ bounds
\* longest list of requested symbols
MaxLen == 2
\* last tick of the clock
MaxTime == 4
\* most calls counted after a remembered one
MaxCalls == 2
\* most votes of one kind the final mapping is tried with
MaxVotes == 7

\* ------------------------------------------------------- program constants
\* get_data_cache(): OptimizedDataCache(cache_duration_minutes=3)
CacheDuration == 3
\* future.result(timeout=10): ten seconds are over after one tick
TimeoutTicks == 1

Symbols == {"A", "B"}
Suffixes == <<".NS", ".BO", "">>
\* what one yf.Ticker(...).history() call can do.  The module binds no name
\* yf itself, so the data source is what the process binds to it; with
\* nothing bound every call raises (NameError), the outcome "raise".
Outcomes == {"data", "empty", "raise", "hang"}

\* threading.Lock(): the value of the lock when no thread holds it; a task
\* holds it under its own id
NoThread == 0
\* the ui thread's id as a holder of the lock
UiThread == 0 - 1
TaskIds == 1..MaxLen
\* _get_from_cache's None
MISS == [status |-> "miss"]

VARIABLES
    cache,              \* self.cache: key -> payload
    cache_timestamps,   \* self.cache_timestamps: key -> time of the put
    lock,               \* self.lock: the thread holding it, or NoThread
    now,                \* datetime.now()
    mainPc,             \* position of fetch_multiple_stocks_concurrent
    symbols,            \* its argument
    idx,                \* position of its cache-check loop
    results,            \* its results dict
    uncached_symbols,   \* its uncached_symbols list
    task,               \* the futures: task id -> [pc, symbol, result]
    collected,          \* futures as_completed has already yielded
    uiPc,               \* position of the ui thread
    expired_keys,       \* clear_expired_cache's expired_keys
    stats,              \* the counts get_cache_stats has taken
    lastPut,            \* observation: key -> latest completed _set_cache
                        \*   that no clear_cache followed
    checked,            \* observation: per requested symbol, valid at lookup
    writers,            \* observation: key -> tasks of this call that wrote it
    failed,             \* observation: tasks whose fetch found no data
    enginePc,           \* position of the caller of the analysis engine
    analysis,           \* the analysis dict handed to generate_trading_decision
    decision,           \* the dict generate_trading_decision returned
    seen,               \* observation: an earlier call's analysis and return
    fnPc,               \* position of the caller of an indicator function
    call,               \* the function it calls and the arguments
    ret,                \* what the function returned
    key_file,           \* the file ".session_key"
    session_file,       \* the file ".zerodha_session.json"
    session_state,      \* st.session_state of the browser session
    sessionNow,         \* datetime.now() of the session manager
    sessionRet,         \* the last session function run and what it returned
    saved,              \* observation: the latest save_session that no
                        \*   clear_session followed
    api_call_count,     \* LivePreMarketSystem.api_call_count
    liveElapsed,        \* seconds from last_reset_time to the latest call
    liveLast,           \* observation: the latest fetch_live_data call
    instruments_cache,  \* InstrumentUniverseManager.instruments_cache
    universeElapsed,    \* seconds from last_update to the latest call
    universeLast        \* observation: the latest get_all_nse_instruments

cacheVars == <<cache, cache_timestamps, lock>>
mainVars == <<mainPc, symbols, idx, results, uncached_symbols, collected>>
uiVars == <<uiPc, expired_keys, stats>>
obsVars == <<lastPut, checked, writers, failed>>
engineVars == <<enginePc, analysis, decision, seen>>
pureVars == <<fnPc, call, ret>>
sessionVars == <<key_file, session_file, session_state, sessionNow, sessionRet,
                 saved>>
liveVars == <<api_call_count, liveElapsed, liveLast>>
universeVars == <<instruments_cache, universeElapsed, universeLast>>
appVars == <<sessionVars, liveVars, universeVars>>
allCacheVars == <<cacheVars, now, mainVars, task, uiVars, obsVars>>
vars == <<cache, cache_timestamps, lock, now, mainPc, symbols, idx, results,
          uncached_symbols, task, collected, uiPc, expired_keys, stats, lastPut,
          checked, writers, failed, enginePc, analysis, decision, seen, fnPc,
          call, ret, key_file, session_file, session_state, sessionNow,
          sessionRet, saved, api_call_count, liveElapsed, liveLast,
          instruments_cache, universeElapsed, universeLast>>

\* ----------------------------------------------------------------- helpers
Range(s) == {s[i] : i \in DOMAIN s}
Distinct(s) == \A i, j \in DOMAIN s : i # j => s[i] # s[j]
Remove(f, ks) == [k \in DOMAIN f \ ks |-> f[k]]
Put(f, k, v) == [x \in DOMAIN f \cup {k} |-> IF x = k THEN v ELSE f[x]]
SeqsUpTo(S, n) == UNION {[1..m -> S] : m \in 0..n}

\* ------------------------------------------------------------ cache (pure)
\* cache_key = f"stock_{symbol}_{period}", period "5d"
\* (variant: the key leaves the symbol out)
StockKey_NoSymbol(s) == "stock__5d"
StockKey(s) == "stock_" \o s \o "_5d"
Keys == {StockKey(s) : s \in Symbols}

\* (variant: an entry expires one tick early)
IsCacheValid_Early(ts, key, t) ==
    IF key \notin DOMAIN ts THEN FALSE
    ELSE t - ts[key] < CacheDuration - 1
\* (variant: an entry of age CacheDuration is still valid)
IsCacheValid_Inclusive(ts, key, t) ==
    IF key \notin DOMAIN ts THEN FALSE
    ELSE t - ts[key] <= CacheDuration

\* _is_cache_valid
IsCacheValid(ts, key, t) ==
    IF key \notin DOMAIN ts THEN FALSE
    ELSE t - ts[key] < CacheDuration

\* _get_from_cache, run under the lock: dict.get gives None for no payload
GetFromCache(c, ts, key, t) ==
    IF IsCacheValid(ts, key, t)
    THEN (IF key \in DOMAIN c THEN c[key] ELSE MISS)
    ELSE MISS

\* "if cached:" / "if cached_data:"  (a result dict is never empty)
Truthy(v) == v # MISS

\* _set_cache, first statement: self.cache[key] = data
SetCachePayload(c, key, data) == Put(c, key, data)
\* _set_cache, second statement: self.cache_timestamps[key] = datetime.now()
SetCacheTimestamp(ts, key, t) == Put(ts, key, t)

\* the result dict of a fetch that found data; of its fields the model keeps
\* 'status' and 'symbol'
SuccessResult(s) == [status |-> "success", symbol |-> s]
\* {'status': 'error', 'message': ...}
ErrorResult(s) == [status |-> "error", message |-> s]

\* fetch_single_stock_data's loop over the ticker formats: the first format
\* with data wins, an empty frame or an exception moves on to the next one,
\* a call that never returns stops the loop there.
RECURSIVE TryFormats(_, _)
TryFormats(outs, i) ==
    IF i > Len(Suffixes) THEN "error"
    ELSE IF outs[i] = "data" THEN "success"
    ELSE IF outs[i] = "hang" THEN "hang"
    ELSE TryFormats(outs, i + 1)

NoPut == [valid |-> FALSE]
\* the ui thread holds no statistics
NoStats == [total_cached_items |-> 0 - 1, valid_cached_items |-> 0 - 1]
NoTask == [pc |-> "none", symbol |-> "", result |-> MISS, at |-> 0]

\* -------------------------------------------------------------------- Init
EmptyDict == <<>>
NoDecision == [decision |-> "none"]

CacheInit ==
    /\ cache = <<>>
    /\ cache_timestamps = <<>>
    /\ lock = NoThread
    /\ now = 0
    /\ mainPc = "idle"
    /\ symbols = <<>>
    /\ idx = 1
    /\ results = <<>>
    /\ uncached_symbols = <<>>
    /\ task = [i \in TaskIds |-> NoTask]
    /\ collected = {}
    /\ uiPc = "idle"
    /\ expired_keys = {}
    /\ stats = NoStats
    /\ lastPut = [k \in Keys |-> NoPut]
    /\ checked = <<>>
    /\ writers = [k \in Keys |-> {}]
    /\ failed = {}

\* no earlier call is remembered
NoneSeen ==
    [valid |-> FALSE, analysis |-> [timeframes |-> EmptyDict],
     decision |-> NoDecision, calls |-> 0]

EngineInit ==
    /\ enginePc = "idle"
    /\ analysis = [timeframes |-> EmptyDict]
    /\ decision = NoDecision
    /\ seen = NoneSeen

\* no indicator function is being called
NoCall == [fn |-> "none"]
NoRet == [none |-> TRUE]

PureIdle ==
    /\ fnPc = "idle"
    /\ call = NoCall
    /\ ret = NoRet

\* a record for Python's None
None == [none |-> TRUE]
\* no file of that name
NoFile == [exists |-> FALSE]
\* no session function has run
NoSessionRet ==
    [fn |-> "none", turn |-> 0, loaded |-> [called |-> FALSE],
     validated |-> "not called", ok |-> FALSE]
NoSave == [valid |-> FALSE]

\* a new browser session on a server that never stored a session
SessionInit ==
    /\ key_file = NoFile
    /\ session_file = NoFile
    /\ session_state = <<>>
    /\ sessionNow = 0
    /\ sessionRet = NoSessionRet
    /\ saved = NoSave

\* no fetch_live_data call was made
NoLiveCall == [made |-> FALSE]

\* LivePreMarketSystem.__init__
LiveInit ==
    /\ api_call_count = 0
    /\ liveElapsed = 0
    /\ liveLast = NoLiveCall

\* no get_all_nse_instruments call was made
NoUniverseCall == [made |-> FALSE]

\* last_update is None
NoUpdate == 0 - 1

\* InstrumentUniverseManager.__init__
UniverseInit ==
    /\ instruments_cache = None
    /\ universeElapsed = NoUpdate
    /\ universeLast = NoUniverseCall

AppInit == SessionInit /\ LiveInit /\ UniverseInit

Init == CacheInit /\ EngineInit /\ PureIdle /\ AppInit

\* ------------------------------------------- fetch_multiple_stocks_concurrent
\* the call: results = {}, uncached_symbols = []
Call(syms) ==
    /\ mainPc \in {"idle", "returned"}
    /\ symbols' = syms
    /\ idx' = 1
    /\ results' = <<>>
    /\ uncached_symbols' = <<>>
    /\ task' = [i \in TaskIds |-> NoTask]
    /\ collected' = {}
    /\ mainPc' = "check"
    /\ checked' = <<>>
    /\ writers' = [k \in Keys |-> {}]
    /\ failed' = {}
    /\ UNCHANGED <<appVars, engineVars, pureVars, cacheVars, now, uiVars, lastPut>>

\* (variant: every requested symbol is fetched)
UncachedAfter_Always(unc, s, cached) == Append(unc, s)
\* the symbols still to fetch after one round of the cache-check loop
UncachedAfter(unc, s, cached) ==
    IF Truthy(cached) THEN unc ELSE Append(unc, s)

\* the results after one round of the cache-check loop
ResultsAfterCheck(res, s, cached) ==
    IF Truthy(cached) THEN Put(res, s, cached) ELSE res

\* one round of "for symbol in symbols": a _get_from_cache under the lock
CheckCache ==
    /\ mainPc = "check"
    /\ idx <= Len(symbols)
    /\ lock = NoThread
    /\ LET s == symbols[idx]
           cached == GetFromCache(cache, cache_timestamps, StockKey(s), now)
       IN /\ results' = ResultsAfterCheck(results, s, cached)
          /\ uncached_symbols' = UncachedAfter(uncached_symbols, s, cached)
          /\ checked' = Append(checked,
                               /\ StockKey(s) \in DOMAIN cache_timestamps
                               /\ StockKey(s) \in DOMAIN cache
                               /\ now - cache_timestamps[StockKey(s)]
                                      < CacheDuration)
    /\ idx' = idx + 1
    /\ UNCHANGED <<appVars, engineVars, pureVars, cacheVars, now, mainPc, symbols, task,
                   collected, uiVars, lastPut, writers, failed>>

\* the futures created by "executor.submit(...) for symbol in uncached_symbols"
Submitted(unc) ==
    [i \in TaskIds |->
        IF i <= Len(unc)
        THEN [pc |-> "ready", symbol |-> unc[i], result |-> MISS, at |-> 0]
        ELSE NoTask]

\* "if uncached_symbols:" with the pool's submissions, or the return
Submit ==
    /\ mainPc = "check"
    /\ idx > Len(symbols)
    /\ IF uncached_symbols # <<>>
       THEN /\ task' = Submitted(uncached_symbols)
            /\ mainPc' = "collect"
       ELSE /\ task' = task
            /\ mainPc' = "returned"
    /\ UNCHANGED <<appVars, engineVars, pureVars, cacheVars, now, symbols, idx, results,
                   uncached_symbols,
                   collected, uiVars, obsVars>>

\* the futures of this call
Futures == {i \in TaskIds : task[i].pc # "none"}

\* (variant: a future that ended in an error leaves no entry)
CollectResult_DropErrors(res, i) ==
    IF task[i].result.status = "error" THEN res
    ELSE Put(res, task[i].symbol, task[i].result)
\* results[symbol] = future.result(timeout=10) for a finished future
CollectResult(res, i) == Put(res, task[i].symbol, task[i].result)

\* the futures as_completed can yield: the finished ones, each once
Completed == {i \in Futures : task[i].pc = "done"} \ collected

\* one round of "for future in as_completed(future_to_symbol)"
Collect(i) ==
    /\ mainPc = "collect"
    /\ i \in Completed
    /\ results' = CollectResult(results, i)
    /\ collected' = collected \cup {i}
    /\ UNCHANGED <<appVars, engineVars, pureVars, cacheVars, now, mainPc, symbols, idx,
                   uncached_symbols,
                   task, uiVars, obsVars>>

\* as_completed is exhausted once every future was yielded; the with block
\* then leaves through shutdown(wait=True) and the call returns
CanReturn == collected = Futures

Return ==
    /\ mainPc = "collect"
    /\ CanReturn
    /\ mainPc' = "returned"
    /\ UNCHANGED <<appVars, engineVars, pureVars, cacheVars, now, symbols, idx, results,
                   uncached_symbols,
                   task, collected, uiVars, obsVars>>

\* every step of the thread running fetch_multiple_stocks_concurrent
MainStep ==
    \/ CheckCache
    \/ Submit
    \/ \E i \in TaskIds : Collect(i)
    \/ Return

\* --------------------------------------------------- fetch_single_stock_data
\* "cached_data = self._get_from_cache(cache_key)" of task i
TaskGet(i) ==
    /\ task[i].pc = "ready"
    /\ lock = NoThread
    /\ LET key == StockKey(task[i].symbol)
           cached == GetFromCache(cache, cache_timestamps, key, now)
       IN /\ task' = [task EXCEPT ![i] =
                        IF Truthy(cached)
                        THEN [@ EXCEPT !.pc = "done", !.result = cached]
                        ELSE [@ EXCEPT !.pc = "fetch"]]
    /\ UNCHANGED <<appVars, engineVars, pureVars, cacheVars, now, mainVars, uiVars,
                   obsVars>>

\* what the loop over the ticker formats can end in, over all the things the
\* three ticker.history() calls can do
FetchEndings == {TryFormats(outs, 1) : outs \in [1..Len(Suffixes) -> Outcomes]}

\* the loop over the ticker formats of task i, ending in r
TaskFetch(i, r) ==
    /\ task[i].pc = "fetch"
    /\ LET s == task[i].symbol
       IN /\ task' = [task EXCEPT ![i] =
                CASE r = "success" ->
                        [@ EXCEPT !.pc = "put", !.result = SuccessResult(s)]
                  [] r = "error" ->
                        [@ EXCEPT !.pc = "done",
                                  !.result = ErrorResult("No data found")]
                  [] OTHER -> [@ EXCEPT !.pc = "hung", !.at = now]]
          /\ failed' = IF r = "error" THEN failed \cup {i} ELSE failed
    /\ UNCHANGED <<appVars, engineVars, pureVars, cacheVars, now, mainVars, uiVars,
                   lastPut, checked, writers>>

\* (variant: the lock is not held across the two statements)
HolderInSetCache_Released(t) == NoThread
\* the holder of the lock between the two statements of _set_cache
HolderInSetCache(t) == t

\* _set_cache of task i: "with self.lock: self.cache[key] = data"
TaskSetPayload(i) ==
    /\ task[i].pc = "put"
    /\ lock = NoThread
    /\ lock' = HolderInSetCache(i)
    /\ cache' = SetCachePayload(cache, StockKey(task[i].symbol), task[i].result)
    /\ task' = [task EXCEPT ![i].pc = "put2"]
    /\ UNCHANGED <<appVars, engineVars, pureVars, cache_timestamps, now, mainVars,
                   uiVars, obsVars>>

\* _set_cache of task i: the timestamp, the release, "return result"
TaskSetTimestamp(i) ==
    /\ task[i].pc = "put2"
    /\ lock = HolderInSetCache(i)
    /\ LET key == StockKey(task[i].symbol)
       IN /\ cache_timestamps' = SetCacheTimestamp(cache_timestamps, key, now)
          /\ lastPut' = [lastPut EXCEPT ![key] =
                           [valid |-> TRUE, payload |-> task[i].result,
                            at |-> now]]
          /\ writers' = [writers EXCEPT ![key] = @ \cup {i}]
    /\ lock' = NoThread
    /\ task' = [task EXCEPT ![i].pc = "done"]
    /\ UNCHANGED <<appVars, engineVars, pureVars, cache, now, mainVars, uiVars, checked,
                   failed>>

\* every step of the pool's tasks
TaskStep ==
    \/ \E i \in TaskIds : TaskGet(i)
    \/ \E i \in TaskIds : \E r \in FetchEndings : TaskFetch(i, r)
    \/ \E i \in TaskIds : TaskSetPayload(i)
    \/ \E i \in TaskIds : TaskSetTimestamp(i)

\* ------------------------------------------------------------ the ui thread
\* clear_cache: "with self.lock: self.cache.clear()"
ClearCachePayloads ==
    /\ uiPc = "idle"
    /\ lock = NoThread
    /\ lock' = UiThread
    /\ cache' = <<>>
    /\ uiPc' = "clear2"
    /\ UNCHANGED <<appVars, engineVars, pureVars, cache_timestamps, now, mainVars, task,
                   expired_keys, stats,
                   obsVars>>

\* the timestamps after clear_cache
ClearedTimestamps == <<>>

\* clear_cache: self.cache_timestamps.clear() and the release
ClearCacheTimestamps ==
    /\ uiPc = "clear2"
    /\ cache_timestamps' = ClearedTimestamps
    /\ lock' = NoThread
    /\ uiPc' = "idle"
    /\ lastPut' = [k \in Keys |-> NoPut]
    /\ UNCHANGED <<appVars, engineVars, pureVars, cache, now, mainVars, task,
                   expired_keys, stats, checked, writers, failed>>

\* (variant: an entry of age CacheDuration is not expired yet)
ExpiredKeys_Late(ts, t) == {k \in DOMAIN ts : t - ts[k] > CacheDuration}
\* clear_expired_cache's expired_keys at current_time t
ExpiredKeys(ts, t) == {k \in DOMAIN ts : t - ts[k] >= CacheDuration}

\* clear_expired_cache: the lock and the list of expired keys
ClearExpiredCollect ==
    /\ uiPc = "idle"
    /\ lock = NoThread
    /\ lock' = UiThread
    /\ expired_keys' = ExpiredKeys(cache_timestamps, now)
    /\ uiPc' = "expire2"
    /\ UNCHANGED <<appVars, engineVars, pureVars, cache, cache_timestamps, now,
                   mainVars, task, stats, obsVars>>

\* clear_expired_cache: the pops of both maps and the release
ClearExpiredPop ==
    /\ uiPc = "expire2"
    /\ cache' = Remove(cache, expired_keys)
    /\ cache_timestamps' = Remove(cache_timestamps, expired_keys)
    /\ expired_keys' = {}
    /\ lock' = NoThread
    /\ uiPc' = "idle"
    /\ UNCHANGED <<appVars, engineVars, pureVars, now, mainVars, task, stats, obsVars>>

\* (variant: only the valid entries are counted as cached)
CacheStats_ValidOnly(c, ts, t) ==
    [total_cached_items |->
        Cardinality({k \in DOMAIN c : IsCacheValid(ts, k, t)}),
     valid_cached_items |->
        Cardinality({k \in DOMAIN c : IsCacheValid(ts, k, t)})]
\* get_cache_stats: the counts, taken under the lock
CacheStats(c, ts, t) ==
    [total_cached_items |-> Cardinality(DOMAIN c),
     valid_cached_items |->
        Cardinality({k \in DOMAIN c : IsCacheValid(ts, k, t)})]

\* the ui thread runs get_cache_stats: it takes the lock and counts
GetCacheStats ==
    /\ uiPc = "idle"
    /\ lock = NoThread
    /\ lock' = UiThread
    /\ stats' = CacheStats(cache, cache_timestamps, now)
    /\ uiPc' = "stats"
    /\ UNCHANGED <<appVars, engineVars, pureVars, cache, cache_timestamps, now,
                   mainVars, task, expired_keys, obsVars>>

\* get_cache_stats returns the dict, which leaves the "with self.lock" block,
\* and the sidebar shows it
StatsShown ==
    /\ uiPc = "stats"
    /\ lock' = NoThread
    /\ stats' = NoStats
    /\ uiPc' = "idle"
    /\ UNCHANGED <<appVars, engineVars, pureVars, cache, cache_timestamps, now,
                   mainVars, task, expired_keys, obsVars>>

\* the ui thread clears
ClearStep ==
    \/ ClearCachePayloads
    \/ ClearCacheTimestamps
    \/ ClearExpiredCollect
    \/ ClearExpiredPop

\* the ui thread clears or monitors
UiStep ==
    \/ ClearStep
    \/ GetCacheStats
    \/ StatsShown

\* ---------------------------------------------------------------- the clock
Tick ==
    /\ now < MaxTime
    /\ now' = now + 1
    /\ UNCHANGED <<appVars, engineVars, pureVars, cacheVars, mainVars, task, uiVars,
                   obsVars>>

Next ==
    \/ \E syms \in SeqsUpTo(Symbols, MaxLen) : Call(syms)
    \/ MainStep
    \/ TaskStep
    \/ ClearStep
    \/ Tick

\* the cache and its batch fetch, next to a thread that clears the cache
Spec == Init /\ [][Next]_vars

MonitorNext ==
    \/ \E syms \in SeqsUpTo(Symbols, MaxLen) : Call(syms)
    \/ MainStep
    \/ TaskStep
    \/ UiStep
    \/ Tick

\* the same next to a thread that clears the cache and reads its statistics
MonitorSpec == Init /\ [][MonitorNext]_vars

\* ------------------------------------------------------- fetch_index_data
\* of self.index_symbols the model keeps one
IndexSymbols == {"^NSEI"}
\* cache_key = f"index_{symbol}"
IndexKey(s) == "index_" \o s
\* what ticker.history(period="5d") can do: a frame of two rows or more, of
\* one row, an empty frame, an exception, no return
IndexOutcomes == {"rows", "row", "empty", "raise", "hang"}
\* the result dict of an index fetch; of its fields the model keeps 'status'
\* and where 'previous_close' came from
IndexSuccess(prev) == [status |-> "success", previous_close |-> prev]

\* the task ids of the threads that call the two fetch functions themselves:
\* the script thread
Callers == {1}

\* a thread calls fetch_single_stock_data(s) itself
StartStock(i, s) ==
    /\ task[i].pc \in {"none", "done"}
    /\ task' = [task EXCEPT ![i] =
                  [pc |-> "ready", symbol |-> s, result |-> MISS, at |-> 0]]
    /\ failed' = failed \ {i}
    /\ writers' = [k \in Keys |-> writers[k] \ {i}]
    /\ UNCHANGED <<appVars, engineVars, pureVars, cacheVars, now, mainVars, uiVars,
                   lastPut, checked>>

\* a thread calls fetch_index_data(s)
StartIndex(i, s) ==
    /\ task[i].pc \in {"none", "done"}
    /\ task' = [task EXCEPT ![i] =
                  [pc |-> "iready", symbol |-> s, result |-> MISS, at |-> 0]]
    /\ failed' = failed \ {i}
    /\ writers' = [k \in Keys |-> writers[k] \ {i}]
    /\ UNCHANGED <<appVars, engineVars, pureVars, cacheVars, now, mainVars, uiVars,
                   lastPut, checked>>

\* "cached_data = self._get_from_cache(cache_key)" of fetch_index_data
IndexGet(i) ==
    /\ task[i].pc = "iready"
    /\ lock = NoThread
    /\ LET key == IndexKey(task[i].symbol)
           cached == GetFromCache(cache, cache_timestamps, key, now)
       IN task' = [task EXCEPT ![i] =
                     IF Truthy(cached)
                     THEN [@ EXCEPT !.pc = "done", !.result = cached]
                     ELSE [@ EXCEPT !.pc = "ifetch"]]
    /\ UNCHANGED <<appVars, engineVars, pureVars, cacheVars, now, mainVars, uiVars,
                   obsVars>>

\* (variant: the "No data available" result is cached like a success)
IndexFetch_CacheErrors(i, o) ==
    /\ task[i].pc = "ifetch"
    /\ task' = [task EXCEPT ![i] =
           CASE o = "rows" ->
                  [@ EXCEPT !.pc = "iput",
                            !.result = IndexSuccess("previous close")]
             [] o = "row" ->
                  [@ EXCEPT !.pc = "iput", !.result = IndexSuccess("open")]
             [] o = "empty" ->
                  [@ EXCEPT !.pc = "iput",
                            !.result = ErrorResult("No data available")]
             [] o = "raise" ->
                  [@ EXCEPT !.pc = "done", !.result = ErrorResult("str(e)")]
             [] OTHER -> [@ EXCEPT !.pc = "hung"]]
    /\ failed' = IF o \in {"empty", "raise"} THEN failed \cup {i} ELSE failed
    /\ UNCHANGED <<appVars, engineVars, pureVars, cacheVars, now, mainVars, uiVars,
                   lastPut, checked, writers>>

\* the try block of fetch_index_data up to the result, history() doing o
IndexFetch(i, o) ==
    /\ task[i].pc = "ifetch"
    /\ task' = [task EXCEPT ![i] =
           CASE o = "rows" ->
                  [@ EXCEPT !.pc = "iput",
                            !.result = IndexSuccess("previous close")]
             [] o = "row" ->
                  [@ EXCEPT !.pc = "iput", !.result = IndexSuccess("open")]
             [] o = "empty" ->
                  [@ EXCEPT !.pc = "done",
                            !.result = ErrorResult("No data available")]
             [] o = "raise" ->
                  [@ EXCEPT !.pc = "done", !.result = ErrorResult("str(e)")]
             [] OTHER -> [@ EXCEPT !.pc = "hung"]]
    /\ failed' = IF o \in {"empty", "raise"} THEN failed \cup {i} ELSE failed
    /\ UNCHANGED <<appVars, engineVars, pureVars, cacheVars, now, mainVars, uiVars,
                   lastPut, checked, writers>>

\* _set_cache of fetch_index_data: "with self.lock: self.cache[key] = data"
IndexSetPayload(i) ==
    /\ task[i].pc = "iput"
    /\ lock = NoThread
    /\ lock' = HolderInSetCache(i)
    /\ cache' = SetCachePayload(cache, IndexKey(task[i].symbol), task[i].result)
    /\ task' = [task EXCEPT ![i].pc = "iput2"]
    /\ UNCHANGED <<appVars, engineVars, pureVars, cache_timestamps, now, mainVars,
                   uiVars, obsVars>>

\* _set_cache of fetch_index_data: the timestamp, the release, the return
IndexSetTimestamp(i) ==
    /\ task[i].pc = "iput2"
    /\ lock = HolderInSetCache(i)
    /\ cache_timestamps' =
          SetCacheTimestamp(cache_timestamps, IndexKey(task[i].symbol), now)
    /\ lock' = NoThread
    /\ task' = [task EXCEPT ![i].pc = "done"]
    /\ UNCHANGED <<appVars, engineVars, pureVars, cache, now, mainVars, uiVars, obsVars>>

\* every step of a thread in fetch_index_data
IndexStep ==
    \/ \E i \in TaskIds : IndexGet(i)
    \/ \E i \in TaskIds : \E o \in IndexOutcomes : IndexFetch(i, o)
    \/ \E i \in TaskIds : IndexSetPayload(i)
    \/ \E i \in TaskIds : IndexSetTimestamp(i)

FetchNext ==
    \/ \E i \in Callers : \E s \in Symbols : StartStock(i, s)
    \/ \E i \in Callers : \E s \in IndexSymbols : StartIndex(i, s)
    \/ TaskStep
    \/ IndexStep
    \/ Tick

\* threads that fetch stocks and indices through the cache
FetchSpec == Init /\ [][FetchNext]_vars

\* ======================================================== decision engine
\* np.nan
NaN == 0 - 1000
IsNan(x) == x = NaN
\* comparisons of floats: every comparison with nan is False
Lt(a, b) == ~IsNan(a) /\ ~IsNan(b) /\ a < b
Gt(a, b) == ~IsNan(a) /\ ~IsNan(b) /\ a > b
Le(a, b) == ~IsNan(a) /\ ~IsNan(b) /\ a <= b
\* dict.get(k, default)
Get(d, k, default) == IF k \in DOMAIN d THEN d[k] ELSE default

\* minimum numbers of bars
RsiPeriod == 14
AdxPeriod == 14
MacdMinBars == 26
BollingerPeriod == 20
SupportResistanceBars == 20
MinBars == 10
KstMinBars == 100
RsPeriod == 55

\* calculate_rsi: raw is what ta's RSIIndicator gives for the last bar
CalculateRsi(bars, raw) == IF bars < RsiPeriod THEN NaN ELSE raw
\* calculate_adx
CalculateAdx(bars, raw) == IF bars < AdxPeriod THEN NaN ELSE raw
\* macd_diff: the histogram of two lines
Histogram(m, sg) == IF IsNan(m) \/ IsNan(sg) THEN NaN ELSE m - sg
\* (variant: the MACD is computed from 20 bars on)
CalculateMacd_Short(bars, m, sg) ==
    IF bars < BollingerPeriod
    THEN [macd |-> NaN, signal |-> NaN, histogram |-> NaN]
    ELSE [macd |-> m, signal |-> sg, histogram |-> Histogram(m, sg)]
\* calculate_macd
CalculateMacd(bars, m, sg) ==
    IF bars < MacdMinBars
    THEN [macd |-> NaN, signal |-> NaN, histogram |-> NaN]
    ELSE [macd |-> m, signal |-> sg, histogram |-> Histogram(m, sg)]
\* calculate_bollinger_bands: of the record the model keeps 'position'; the
\* bands are available exactly when the position is
CalculateBollingerBands(bars, pos) ==
    IF bars < BollingerPeriod THEN [position |-> NaN] ELSE [position |-> pos]
\* calculate_support_resistance: numpy floats
CalculateSupportResistance(bars, sup, res) ==
    IF bars < SupportResistanceBars
    THEN [support |-> NaN, resistance |-> NaN, numpy |-> TRUE]
    ELSE [support |-> sup, resistance |-> res, numpy |-> TRUE]

\* calculate_kst: k and sg are the last values of the KST line and of its
\* signal line, nan where pd.isna holds
CalculateKst(bars, k, sg) ==
    IF bars < KstMinBars
    THEN [kst |-> NaN, kst_signal |-> NaN, kst_histogram |-> NaN]
    ELSE [kst |-> k, kst_signal |-> sg, kst_histogram |-> Histogram(k, sg)]

\* "if not all(np.isnan(list(d.values())))"
AllNan(d) == \A k \in DOMAIN d : k = "numpy" \/ IsNan(d[k])

\* the indicators dict of one timeframe; d is the frame get_ohlcv_data gave
\* with what the indicator library computes on it.  Of the daily entries the
\* model keeps the ones a rule of generate_trading_decision reads; 'kst' and
\* 'relative_strength' are put in or left out the same way.
Indicators(tf_name, d) ==
    LET rsi_val == CalculateRsi(d.bars, d.rsi)
        adx_val == CalculateAdx(d.bars, d.adx)
        macd_data == CalculateMacd(d.bars, d.macd, d.signal)
        bb_data == CalculateBollingerBands(d.bars, d.position)
        sr_data == CalculateSupportResistance(d.bars, d.support, d.resistance)
        names ==
            {n \in {"rsi"} : ~IsNan(rsi_val)}
            \cup {n \in {"adx"} : tf_name \in {"daily", "30m"} /\ ~IsNan(adx_val)}
            \cup {n \in {"macd"} : tf_name = "daily" /\ ~AllNan(macd_data)}
            \cup {n \in {"bollinger_bands"} : tf_name = "daily" /\ ~AllNan(bb_data)}
            \cup {n \in {"support_resistance"} :
                    tf_name = "daily" /\ ~AllNan(sr_data)}
    IN [n \in names |->
            CASE n = "rsi" -> rsi_val
              [] n = "adx" -> adx_val
              [] n = "macd" -> macd_data
              [] n = "bollinger_bands" -> bb_data
              [] OTHER -> sr_data]

\* the timeframes get_comprehensive_analysis goes through, in its order
TimeframeNames == <<"daily", "30m", "15m", "5m">>

\* the key under which the analysis stores the 30-minute timeframe
Min30Key == TimeframeNames[2]

\* a timeframe is left out when its frame is empty or has fewer than 10 rows,
\* or when processing it raises
Processed(d) == d.bars >= MinBars /\ ~d.raises

\* (variant: the first exception ends the loop over the timeframes)
GetComprehensiveAnalysis_Abort(data) ==
    [timeframes |->
        [tf \in {TimeframeNames[n] : n \in {m \in DOMAIN TimeframeNames :
                    /\ Processed(data[TimeframeNames[m]])
                    /\ \A k \in 1..m : ~data[TimeframeNames[k]].raises}}
            |-> [indicators |-> Indicators(tf, data[tf]),
                 ohlcv |-> [close |-> data[tf].close],
                 data_points |-> data[tf].bars]]]

\* get_comprehensive_analysis; data: timeframe name -> frame
GetComprehensiveAnalysis(data) ==
    [timeframes |->
        [tf \in {TimeframeNames[n] : n \in {m \in DOMAIN TimeframeNames :
                                              Processed(data[TimeframeNames[m]])}}
            |-> [indicators |-> Indicators(tf, data[tf]),
                 ohlcv |-> [close |-> data[tf].close],
                 data_points |-> data[tf].bars]]]

\* ------------------------------------------------ generate_trading_decision
\* the votes and the reasons of one rule
Vote(bull, bear, why) == [bullish |-> bull, bearish |-> bear, reasons |-> why]
NoVote == Vote(0, 0, <<>>)

\* (variant: the neutral band leaves out 40 and 60)
RsiRule_Open(daily_rsi) ==
    IF IsNan(daily_rsi) THEN NoVote
    ELSE IF daily_rsi < 30 THEN Vote(2, 0, <<"Daily RSI oversold">>)
    ELSE IF daily_rsi > 70 THEN Vote(0, 2, <<"Daily RSI overbought">>)
    ELSE IF 40 < daily_rsi /\ daily_rsi < 60
         THEN Vote(1, 0, <<"Daily RSI neutral-bullish">>)
    ELSE NoVote

\* RSI Analysis
RsiRule(daily_rsi) ==
    IF IsNan(daily_rsi) THEN NoVote
    ELSE IF daily_rsi < 30 THEN Vote(2, 0, <<"Daily RSI oversold">>)
    ELSE IF daily_rsi > 70 THEN Vote(0, 2, <<"Daily RSI overbought">>)
    ELSE IF 40 <= daily_rsi /\ daily_rsi <= 60
         THEN Vote(1, 0, <<"Daily RSI neutral-bullish">>)
    ELSE NoVote

\* (variant: an ADX of 25 is a strong trend)
AdxRule_AtLeast(daily_adx, daily_rsi) ==
    IF IsNan(daily_adx) THEN NoVote
    ELSE IF daily_adx >= 25
         THEN (IF Gt(daily_rsi, 50) THEN Vote(1, 0, <<"Strong trend">>)
               ELSE Vote(0, 1, <<"Strong trend">>))
    ELSE Vote(0, 0, <<"Weak trend">>)

\* ADX Analysis (Trend Strength)
AdxRule(daily_adx, daily_rsi) ==
    IF IsNan(daily_adx) THEN NoVote
    ELSE IF daily_adx > 25
         THEN (IF Gt(daily_rsi, 50) THEN Vote(1, 0, <<"Strong trend">>)
               ELSE Vote(0, 1, <<"Strong trend">>))
    ELSE Vote(0, 0, <<"Weak trend">>)

\* (variant: equal lines are a bullish crossover)
MacdRule_AtLeast(macd_data) ==
    IF "macd" \in DOMAIN macd_data /\ "signal" \in DOMAIN macd_data
    THEN (IF Gt(macd_data.macd, macd_data.signal) \/ macd_data.macd = macd_data.signal
          THEN Vote(1, 0, <<"MACD bullish crossover">>)
          ELSE Vote(0, 1, <<"MACD bearish crossover">>))
    ELSE NoVote

\* MACD Analysis: "is not None" holds for every float, nan included
MacdRule(macd_data) ==
    IF "macd" \in DOMAIN macd_data /\ "signal" \in DOMAIN macd_data
    THEN (IF Gt(macd_data.macd, macd_data.signal)
          THEN Vote(1, 0, <<"MACD bullish crossover">>)
          ELSE Vote(0, 1, <<"MACD bearish crossover">>))
    ELSE NoVote

\* Bollinger Bands Analysis
BollingerRule(bb_data) ==
    LET bb_position == Get(bb_data, "position", NaN)
    IN IF IsNan(bb_position) THEN NoVote
       ELSE IF bb_position < 20 THEN Vote(1, 0, <<"Near lower Bollinger Band">>)
       ELSE IF bb_position > 80 THEN Vote(0, 1, <<"Near upper Bollinger Band">>)
       ELSE NoVote

\* Support/Resistance Analysis, support and resistance available and apart:
\* price_position = (current_price - support) / (resistance - support) * 100
SupportResistanceRule(sr_data, current_price) ==
    LET support == Get(sr_data, "support", NaN)
        resistance == Get(sr_data, "resistance", NaN)
    IN IF IsNan(support) \/ IsNan(resistance) THEN NoVote
       ELSE IF resistance > support
            THEN (IF (current_price - support) * 100 < 25 * (resistance - support)
                  THEN Vote(1, 0, <<"Near support level">>)
                  ELSE IF (current_price - support) * 100
                              > 75 * (resistance - support)
                       THEN Vote(0, 1, <<"Near resistance level">>)
                       ELSE NoVote)
       ELSE IF resistance < support
            THEN (IF (current_price - support) * 100 > 25 * (resistance - support)
                  THEN Vote(1, 0, <<"Near support level">>)
                  ELSE IF (current_price - support) * 100
                              < 75 * (resistance - support)
                       THEN Vote(0, 1, <<"Near resistance level">>)
                       ELSE NoVote)
       \* numpy division by zero: -inf, nan or inf
       ELSE IF current_price < support THEN Vote(1, 0, <<"Near support level">>)
       ELSE IF current_price > support
            THEN Vote(0, 1, <<"Near resistance level">>)
       ELSE NoVote

\* the division raises ZeroDivisionError on Python floats
SupportResistanceRaises(sr_data) ==
    /\ "support" \in DOMAIN sr_data
    /\ "resistance" \in DOMAIN sr_data
    /\ ~IsNan(sr_data.support)
    /\ sr_data.support = sr_data.resistance
    /\ ~Get(sr_data, "numpy", TRUE)

\* 30-min timeframe confirmation
ConfirmationRule(min30_indicators, daily_rsi) ==
    IF DOMAIN min30_indicators = {} THEN NoVote
    ELSE LET min30_rsi == Get(min30_indicators, "rsi", NaN)
         IN IF IsNan(min30_rsi) THEN NoVote
            ELSE IF Lt(daily_rsi, 40) /\ min30_rsi < 40
                 THEN Vote(1, 0, <<"Multi-timeframe oversold confirmation">>)
            ELSE IF Gt(daily_rsi, 60) /\ min30_rsi > 60
                 THEN Vote(0, 1, <<"Multi-timeframe overbought confirmation">>)
            ELSE NoVote

\* the key generate_trading_decision tests before it reads the 30-minute
\* indicators: "... if '30min' in analysis['timeframes'] else {}"
Min30Guard == "30min"

\* min30_indicators
Min30Indicators(tfs) ==
    IF Min30Guard \in DOMAIN tfs
    THEN Get(Get(tfs, "30m", EmptyDict), "indicators", EmptyDict)
    ELSE EmptyDict

\* sep.join(parts): the parts with sep between each two of them; a string is
\* kept as the sequence of its pieces
RECURSIVE Join(_, _)
Join(sep, parts) ==
    IF Len(parts) <= 1 THEN parts
    ELSE Join(sep, SubSeq(parts, 1, Len(parts) - 1)) \o <<sep, parts[Len(parts)]>>

\* (variant: BUY and SELL need a net score beyond 2)
FinalDecision_Strict(bullish_signals, bearish_signals, reasons) ==
    LET net_score == bullish_signals - bearish_signals
        total_signals == bullish_signals + bearish_signals
    IN [decision |-> IF net_score > 2 THEN "BUY"
                     ELSE IF net_score < 0 - 2 THEN "SELL" ELSE "HOLD",
        confidence |->
            IF net_score > 2 THEN "High"
            ELSE IF net_score < 0 - 2 THEN "High"
            ELSE (IF total_signals >= 3 THEN "Medium" ELSE "Low"),
        reason |-> IF reasons # <<>> THEN Join("; ", reasons)
                   ELSE <<"Neutral technical indicators">>,
        score |-> net_score,
        bullish_signals |-> bullish_signals,
        bearish_signals |-> bearish_signals]

\* "Calculate final decision"
FinalDecision(bullish_signals, bearish_signals, reasons) ==
    LET net_score == bullish_signals - bearish_signals
        total_signals == bullish_signals + bearish_signals
    IN [decision |-> IF net_score >= 2 THEN "BUY"
                     ELSE IF net_score <= 0 - 2 THEN "SELL" ELSE "HOLD",
        confidence |->
            IF net_score >= 2 THEN (IF net_score >= 3 THEN "High" ELSE "Medium")
            ELSE IF net_score <= 0 - 2
                 THEN (IF net_score <= 0 - 3 THEN "High" ELSE "Medium")
            ELSE (IF total_signals >= 3 THEN "Medium" ELSE "Low"),
        reason |-> IF reasons # <<>> THEN Join("; ", reasons)
                   ELSE <<"Neutral technical indicators">>,
        score |-> net_score,
        bullish_signals |-> bullish_signals,
        bearish_signals |-> bearish_signals]

\* (variant: the "Insufficient data" return has no score)
InsufficientData_NoScore ==
    [decision |-> "HOLD", confidence |-> "Low",
     reason |-> <<"Insufficient data for analysis">>]
\* the return of the "Insufficient data" branch
InsufficientData ==
    [decision |-> "HOLD", confidence |-> "Low",
     reason |-> <<"Insufficient data for analysis">>, score |-> 0]

\* the return of "except Exception as e"
AnalysisError ==
    [decision |-> "HOLD", confidence |-> "Low",
     reason |-> <<"Analysis error">>, score |-> 0]

\* the votes of the rules, in the order the function runs them
Votes(daily_data, min30_indicators) ==
    LET daily_indicators == daily_data.indicators
        daily_rsi == Get(daily_indicators, "rsi", NaN)
    IN << RsiRule(daily_rsi),
          AdxRule(Get(daily_indicators, "adx", NaN), daily_rsi),
          MacdRule(Get(daily_indicators, "macd", EmptyDict)),
          BollingerRule(Get(daily_indicators, "bollinger_bands", EmptyDict)),
          SupportResistanceRule(
              Get(daily_indicators, "support_resistance", EmptyDict),
              daily_data.ohlcv.close),
          ConfirmationRule(min30_indicators, daily_rsi) >>

RECURSIVE SumBullish(_, _)
\* (variant: bullish_signals does not start from zero)
SumBullish_FromOne(vs, n) ==
    IF n = 0 THEN 1 ELSE SumBullish(vs, n - 1) + vs[n].bullish
SumBullish(vs, n) == IF n = 0 THEN 0 ELSE SumBullish(vs, n - 1) + vs[n].bullish
RECURSIVE SumBearish(_, _)
SumBearish(vs, n) == IF n = 0 THEN 0 ELSE SumBearish(vs, n - 1) + vs[n].bearish
RECURSIVE AllReasons(_, _)
\* (variant: a later rule's reason goes in front)
AllReasons_Reversed(vs, n) ==
    IF n = 0 THEN <<>> ELSE vs[n].reasons \o AllReasons(vs, n - 1)
AllReasons(vs, n) ==
    IF n = 0 THEN <<>> ELSE AllReasons(vs, n - 1) \o vs[n].reasons

\* generate_trading_decision
GenerateTradingDecision(a) ==
    LET tfs == a.timeframes
        daily_data == Get(tfs, "daily", EmptyDict)
    IN IF "error" \in DOMAIN daily_data \/ "indicators" \notin DOMAIN daily_data
       THEN InsufficientData
       ELSE IF \/ "ohlcv" \notin DOMAIN daily_data
               \/ SupportResistanceRaises(
                     Get(daily_data.indicators, "support_resistance", EmptyDict))
            THEN AnalysisError
       ELSE LET vs == Votes(daily_data, Min30Indicators(tfs))
            IN FinalDecision(SumBullish(vs, Len(vs)), SumBearish(vs, Len(vs)),
                             AllReasons(vs, Len(vs)))

\* ------------------------------------------------------- the engine's caller
\* what the indicator library can give for the last bar
RsiValues == {NaN, 25, 35, 50, 65, 75}
AdxValues == {NaN, 20, 30}
MacdValues == {<<NaN, NaN>>, <<1, NaN>>, <<1, 0>>, <<1, 2>>}
PositionValues == {NaN, 10, 90}
LevelValues == {<<NaN, NaN>>, <<100, 200>>}
CloseValues == {110, 190}
\* rows of a frame: empty, too few for any indicator, plenty
BarValues == {0, 12, 30}

\* the daily frames
DailyFrames ==
    {[bars |-> b, raises |-> FALSE, rsi |-> r, adx |-> x, macd |-> m[1],
      signal |-> m[2], position |-> p, support |-> l[1], resistance |-> l[2],
      close |-> c] :
        b \in BarValues, r \in RsiValues, x \in AdxValues, m \in MacdValues,
        p \in PositionValues, l \in LevelValues, c \in CloseValues}

\* a frame of an intraday timeframe
Intraday(b, r, exc) ==
    [bars |-> b, raises |-> exc, rsi |-> r, adx |-> NaN, macd |-> NaN,
     signal |-> NaN, position |-> NaN, support |-> NaN, resistance |-> NaN,
     close |-> 150]
NoFrame == Intraday(0, NaN, FALSE)
Min30Frames == {NoFrame} \cup {Intraday(30, r, FALSE) : r \in {NaN, 35, 65}}
LowerFrames == {NoFrame, Intraday(30, 50, FALSE), Intraday(30, 50, TRUE)}

\* the caller runs get_comprehensive_analysis
Analyze(daily, min30, lower) ==
    /\ enginePc = "idle"
    /\ analysis' = GetComprehensiveAnalysis(
                      [tf \in Range(TimeframeNames) |->
                          CASE tf = "daily" -> daily
                            [] tf = "30m" -> min30
                            [] OTHER -> lower])
    /\ enginePc' = "analysed"
    /\ UNCHANGED <<decision, seen, allCacheVars, pureVars, appVars>>

\* an analysis dict built by the caller: the daily entry is absent, an error
\* entry, or an entry whose indicators may hold nan; the 30-minute entry is
\* stored under the keys in keys30
Supplied(kind, daily, keys30, min30) ==
    LET dailyEntry ==
            CASE kind = "error" -> [error |-> "fetch failed"]
              [] kind = "bare" -> [indicators |-> [rsi |-> daily.rsi]]
              [] OTHER ->
                 [indicators |->
                     [rsi |-> daily.rsi, adx |-> daily.adx,
                      macd |-> [macd |-> daily.macd, signal |-> daily.signal],
                      bollinger_bands |-> [position |-> daily.position],
                      support_resistance |->
                          [support |-> daily.support,
                           resistance |-> daily.resistance, numpy |-> FALSE]],
                  ohlcv |-> [close |-> daily.close]]
        min30Entry == [indicators |-> [rsi |-> min30.rsi],
                       ohlcv |-> [close |-> min30.close]]
    IN [timeframes |->
          [k \in keys30 \cup {n \in {"daily"} : kind # "absent"} |->
              IF k = "daily" THEN dailyEntry ELSE min30Entry]]

\* the caller hands over a dict of its own
Supply(kind, daily, keys30, min30) ==
    /\ enginePc = "idle"
    /\ analysis' = Supplied(kind, daily, keys30, min30)
    /\ enginePc' = "analysed"
    /\ UNCHANGED <<decision, seen, allCacheVars, pureVars, appVars>>

\* (variant: the function empties the dict it was handed)
Decide_Consuming ==
    /\ enginePc = "analysed"
    /\ decision' = GenerateTradingDecision(analysis)
    /\ analysis' = [timeframes |-> EmptyDict]
    /\ enginePc' = "decided"
    /\ UNCHANGED <<seen, allCacheVars, pureVars, appVars>>

\* the caller runs generate_trading_decision on the analysis
Decide ==
    /\ enginePc = "analysed"
    /\ decision' = GenerateTradingDecision(analysis)
    /\ enginePc' = "decided"
    /\ seen' = IF seen.valid
               THEN [seen EXCEPT !.calls = IF @ < MaxCalls THEN @ + 1 ELSE @]
               ELSE seen
    /\ UNCHANGED <<analysis, allCacheVars, pureVars, appVars>>

\* the caller drops the decision and starts over
Discard ==
    /\ enginePc = "decided"
    /\ enginePc' = "idle"
    /\ analysis' = [timeframes |-> EmptyDict]
    /\ decision' = NoDecision
    /\ UNCHANGED <<seen, allCacheVars, pureVars, appVars>>

\* the dicts a caller builds
SupplyKinds == {"absent", "error", "bare", "full"}
SupplyFrames == {f \in DailyFrames : f.bars = 30}

\* get_comprehensive_analysis on any frames
AnalyzeAny ==
    /\ enginePc = "idle"
    /\ \E d \in DailyFrames, m \in Min30Frames, l \in LowerFrames :
          Analyze(d, m, l)

\* any dict of the caller's
SupplyAny ==
    /\ enginePc = "idle"
    /\ \E kind \in SupplyKinds, d \in SupplyFrames,
          keys30 \in SUBSET {"30m", "30min"}, m \in Min30Frames \ {NoFrame} :
          Supply(kind, d, keys30, m)

EngineNext ==
    \/ AnalyzeAny
    \/ SupplyAny
    \/ Decide
    \/ Discard

\* the analysis engine and its caller
EngineSpec == Init /\ [][EngineNext]_vars

\* ------------------------------------------------- the RSI and the ADX rule
\* RSI and ADX values: every whole RSI, the ADX around its threshold; nan is
\* an indicator the analysis left out
RuleRsiValues == {NaN} \cup 0..100
RuleAdxValues == {NaN, 0, 24, 25, 26, 60}

\* a daily entry with these two indicators and no other
RuleAnalysis(r, x) ==
    LET names == {n \in {"rsi"} : ~IsNan(r)} \cup {n \in {"adx"} : ~IsNan(x)}
    IN [timeframes |->
          [tf \in {"daily"} |->
              [indicators |-> [n \in names |-> IF n = "rsi" THEN r ELSE x],
               ohlcv |-> [close |-> 150],
               data_points |-> 30]]]

\* the caller hands over an analysis with an RSI, an ADX, both or neither
SupplyRule ==
    /\ enginePc = "idle"
    /\ \E r \in RuleRsiValues, x \in RuleAdxValues :
          analysis' = RuleAnalysis(r, x)
    /\ enginePc' = "analysed"
    /\ UNCHANGED <<decision, seen, allCacheVars, pureVars, appVars>>

RuleNext ==
    \/ SupplyRule
    \/ Decide
    \/ Discard

\* generate_trading_decision on every RSI and ADX
RuleSpec == Init /\ [][RuleNext]_vars

\* ------------------------------------------------- the same snapshot again
\* the daily frames of the snapshots a caller hands over again
SnapshotFrames ==
    {f \in SupplyFrames :
        /\ f.rsi \in {25, 75}
        /\ f.adx = 30
        /\ f.macd = 1 /\ f.signal = 0
        /\ f.position = 10
        /\ f.support = 100
        /\ f.close = 110}

\* the caller hands over one of a few snapshots
SupplySnapshot ==
    /\ enginePc = "idle"
    /\ \E kind \in SupplyKinds, d \in SnapshotFrames :
          Supply(kind, d, {"30m", "30min"}, Intraday(30, 35, FALSE))

\* the caller keeps the analysis and the decision of this call
Remember ==
    /\ enginePc = "decided"
    /\ ~seen.valid \/ seen.calls > 0
    /\ seen' = [valid |-> TRUE, analysis |-> analysis, decision |-> decision,
                calls |-> 0]
    /\ UNCHANGED <<enginePc, analysis, decision, allCacheVars, pureVars, appVars>>

PurityNext ==
    \/ SupplySnapshot
    \/ Decide
    \/ Remember
    \/ Discard

\* calls of generate_trading_decision, one of them remembered
PuritySpec == Init /\ [][PurityNext]_vars

\* ------------------------------------ the MACD and the support/resistance rule
\* the MACD line and the signal line: below, equal, above; nan is a line the
\* indicator library could not compute
LevelMacdValues == {NaN, 0, 1, 2}
\* support and resistance: unavailable, equal (twenty flat bars), apart
LevelPairs == {<<NaN, NaN>>, <<100, 100>>, <<100, 200>>}
\* the daily close: outside the range, at its ends, around its quartiles
LevelCloses == {90, 100, 110, 124, 125, 126, 150, 174, 175, 176, 190, 200, 210}

\* a daily entry with a MACD record, support and resistance and the close;
\* np says whether the levels are numpy floats, as calculate_support_resistance
\* returns them, or Python floats
LevelAnalysis(m, g, l, c, np) ==
    [timeframes |->
        [tf \in {"daily"} |->
            [indicators |->
                [macd |-> [macd |-> m, signal |-> g],
                 support_resistance |->
                     [support |-> l[1], resistance |-> l[2], numpy |-> np]],
             ohlcv |-> [close |-> c],
             data_points |-> 30]]]

\* the caller hands over an analysis with a MACD record and the levels
SupplyLevels ==
    /\ enginePc = "idle"
    /\ \E m \in LevelMacdValues, g \in LevelMacdValues, l \in LevelPairs,
          c \in LevelCloses, np \in BOOLEAN :
          analysis' = LevelAnalysis(m, g, l, c, np)
    /\ enginePc' = "analysed"
    /\ UNCHANGED <<decision, seen, allCacheVars, pureVars, appVars>>

LevelNext ==
    \/ SupplyLevels
    \/ Decide
    \/ Discard

\* generate_trading_decision on every MACD record and every level
LevelSpec == Init /\ [][LevelNext]_vars

\* ------------------------------------------------ calculate_relative_strength
\* returns and strengths are counted in units of 0.0001 percent
Scale == 100 * 100
\* round(x, n) to a multiple of step; a float halfway between two multiples
\* goes to the one its binary representation is nearer to: tie says which
Round(x, step, tie) ==
    LET lo == (x \div step) * step
        r == x - lo
    IN IF 2 * r < step THEN lo
       ELSE IF 2 * r > step THEN lo + step
       ELSE IF tie = "up" THEN lo + step ELSE lo
\* (variant: min gives its second argument)
PyMin_Second(a, b) == b
\* Python's min(a, b) and max(a, b) of two floats: b unless a compares as
\* wanted first, so a nan second argument is dropped
PyMin(a, b) == IF Lt(b, a) THEN b ELSE a
PyMax(a, b) == IF Gt(b, a) THEN b ELSE a
\* the record of every path that computes nothing
NoRelativeStrength ==
    [relative_strength |-> NaN, rs_rank |-> NaN, outperformance |-> "nan"]

\* calculate_relative_strength; common is len(common_dates), the frames'
\* emptiness shows as common = 0, the returns are those over the period
CalculateRelativeStrength(common, stock_return, benchmark_return, tie) ==
    IF common < RsPeriod THEN NoRelativeStrength
    ELSE LET relative_strength ==
                 IF IsNan(stock_return) \/ IsNan(benchmark_return) THEN NaN
                 ELSE stock_return - benchmark_return
             rs_rank0 == IF IsNan(relative_strength) THEN NaN
                         ELSE 50 * Scale + relative_strength \div 2
             rs_rank == PyMax(0, PyMin(100 * Scale, rs_rank0))
         IN [relative_strength |->
                 IF IsNan(relative_strength) THEN NaN
                 ELSE Round(relative_strength, Scale \div 100, tie),
             rs_rank |-> Round(rs_rank, Scale \div 10, tie),
             outperformance |-> IF Gt(relative_strength, 0)
                                THEN "Outperforming" ELSE "Underperforming",
             stock_return |->
                 IF IsNan(stock_return) THEN NaN
                 ELSE Round(stock_return, Scale \div 100, tie),
             benchmark_return |->
                 IF IsNan(benchmark_return) THEN NaN
                 ELSE Round(benchmark_return, Scale \div 100, tie)]

\* ------------------------------------------- the indicator functions' caller
\* numbers of rows around each minimum window
WindowBars == {0, 9, 13, 14, 19, 20, 25, 26, 99, 100, 120}
IndicatorNames ==
    {"rsi", "adx", "macd", "bollinger_bands", "support_resistance", "kst"}
\* what the indicator library does on the frame: a value, nan, an exception
LibraryOutcomes == {"value", "nan", "raise"}
\* returns over the period, in units of 0.0001 percent
StockReturns ==
    {NaN, 0 - 250 * Scale, 0 - 100 * Scale - 40, 0 - 60, 0 - 40, 0, 40, 50,
     60, 1300, 1500, 100 * Scale + 40, 250 * Scale}
BenchmarkReturns == {0, 20000}
CommonDates == {0, 54, 55}

\* the daily frames of an analysis: rows below and above the windows, an
\* exception while the timeframe is processed, an RSI the library cannot give
AnalysisDailyFrames ==
    {[bars |-> b, raises |-> exc, rsi |-> r, adx |-> 30, macd |-> 1,
      signal |-> 0, position |-> 10, support |-> 100, resistance |-> 200,
      close |-> 110] :
        b \in {0, 12, 15, 22, 30}, exc \in BOOLEAN, r \in {NaN, 50}}
\* the intraday frames: none, a good one, one whose processing raises
AnalysisIntradayFrames ==
    {NoFrame, Intraday(30, 50, FALSE), Intraday(30, 50, TRUE)}
ComprehensiveCalls ==
    {[fn |-> "comprehensive_analysis",
      data |-> [tf \in Range(TimeframeNames) |->
                   CASE tf = "daily" -> d
                     [] tf = "30m" -> m
                     [] tf = "15m" -> q
                     [] OTHER -> f]] :
        d \in AnalysisDailyFrames, m \in AnalysisIntradayFrames,
        q \in AnalysisIntradayFrames, f \in AnalysisIntradayFrames}

FinalCalls ==
    {[fn |-> "final_decision", bullish |-> b, bearish |-> r] :
        b \in 0..MaxVotes, r \in 0..MaxVotes}
IndicatorCalls ==
    {[fn |-> "indicator", name |-> n, bars |-> b, lib |-> l] :
        n \in IndicatorNames, b \in WindowBars, l \in LibraryOutcomes}
RelativeStrengthCalls ==
    {[fn |-> "relative_strength", common |-> c, stock_return |-> sr,
      benchmark_return |-> br, tie |-> t] :
        c \in CommonDates, sr \in StockReturns, br \in BenchmarkReturns,
        t \in {"up", "down"}}
PureCalls ==
    FinalCalls \cup IndicatorCalls \cup RelativeStrengthCalls
    \cup ComprehensiveCalls

\* the caller is about to call one function on one input
PureInit ==
    /\ CacheInit
    /\ EngineInit
    /\ AppInit
    /\ fnPc = "called"
    /\ call \in PureCalls
    /\ ret = NoRet

\* "Calculate final decision" on the two counts
ApplyFinalDecision ==
    /\ fnPc = "called"
    /\ call.fn = "final_decision"
    /\ ret' = FinalDecision(call.bullish, call.bearish, <<>>)
    /\ fnPc' = "returned"
    /\ UNCHANGED <<call, engineVars, allCacheVars, appVars>>

\* one of the calculate_* functions on a frame of call.bars rows; what the
\* library raises ends in "except: return np.nan"
ApplyIndicator ==
    /\ fnPc = "called"
    /\ call.fn = "indicator"
    /\ LET raw == IF call.lib = "value" THEN 55 ELSE NaN
           sup == IF call.lib = "value" THEN 100 ELSE NaN
           res == IF call.lib = "value" THEN 200 ELSE NaN
       IN ret' =
            CASE call.name = "rsi" -> [value |-> CalculateRsi(call.bars, raw)]
              [] call.name = "adx" -> [value |-> CalculateAdx(call.bars, raw)]
              [] call.name = "macd" -> CalculateMacd(call.bars, raw, raw)
              [] call.name = "bollinger_bands" ->
                    CalculateBollingerBands(call.bars, raw)
              [] call.name = "support_resistance" ->
                    CalculateSupportResistance(call.bars, sup, res)
              [] OTHER -> CalculateKst(call.bars, raw, raw)
    /\ fnPc' = "returned"
    /\ UNCHANGED <<call, engineVars, allCacheVars, appVars>>

\* calculate_relative_strength
ApplyRelativeStrength ==
    /\ fnPc = "called"
    /\ call.fn = "relative_strength"
    /\ ret' = CalculateRelativeStrength(call.common, call.stock_return,
                                        call.benchmark_return, call.tie)
    /\ fnPc' = "returned"
    /\ UNCHANGED <<call, engineVars, allCacheVars, appVars>>

\* get_comprehensive_analysis on the frames get_ohlcv_data gives
ApplyComprehensiveAnalysis ==
    /\ fnPc = "called"
    /\ call.fn = "comprehensive_analysis"
    /\ ret' = GetComprehensiveAnalysis(call.data)
    /\ fnPc' = "returned"
    /\ UNCHANGED <<call, engineVars, allCacheVars, appVars>>

PureNext ==
    \/ ApplyFinalDecision
    \/ ApplyIndicator
    \/ ApplyRelativeStrength
    \/ ApplyComprehensiveAnalysis

\* each function of the engine on each input
PureSpec == PureInit /\ [][PureNext]_vars

\* ================================================== the persisted session
\* the session clock counts ticks of half a day; timedelta(days=1)
SessionLifetime == 2
\* the keys Fernet.generate_key() can give
FernetKeys == {"key1", "key2"}
\* what a login yields: the credentials typed in and the token of the day
Credentials ==
    {[api_key |-> "api-key", api_secret |-> "api-secret", access_token |-> t,
      user_profile |-> [user_id |-> "AB1234"]] : t \in {"token1", "token2"}}

\* _get_or_create_encryption_key: the key and the key file afterwards
GetOrCreateEncryptionKey(file, generated) ==
    IF file.exists THEN [key |-> file.key, file |-> file]
    ELSE [key |-> generated, file |-> [exists |-> TRUE, key |-> generated]]

\* _encrypt_data: a token that only the key it was made with opens
EncryptData(key, data) == [cipher |-> TRUE, key |-> key, plain |-> data]
\* _decrypt_data raises InvalidToken under another key
DecryptRaises(key, token) == token.key # key
\* _decrypt_data
DecryptData(key, token) == token.plain

\* datetime.isoformat() and datetime.fromisoformat(): the string holds the
\* time to the microsecond
IsoFormat(t) == [iso |-> t]
FromIsoFormat(str) == str.iso

\* save_session: the file it writes at time t; both readings of the clock
\* fall into one tick
SaveSession(key, c, t) ==
    [exists |-> TRUE,
     api_key |-> EncryptData(key, c.api_key),
     api_secret |-> EncryptData(key, c.api_secret),
     access_token |-> EncryptData(key, c.access_token),
     user_profile |-> c.user_profile,
     created_at |-> IsoFormat(t),
     expires_at |-> IsoFormat(t + SessionLifetime)]

\* clear_session: os.remove of the file if it exists
ClearSession(file) == NoFile

\* (variant: a session expires at its expiry time already)
LoadSession_AtExpiry(key, file, t) ==
    IF ~file.exists THEN [ret |-> None, file |-> file]
    ELSE IF t >= FromIsoFormat(file.expires_at)
         THEN [ret |-> None, file |-> ClearSession(file)]
    ELSE IF \/ DecryptRaises(key, file.api_key)
            \/ DecryptRaises(key, file.api_secret)
            \/ DecryptRaises(key, file.access_token)
         THEN [ret |-> None, file |-> ClearSession(file)]
    ELSE [ret |-> [api_key |-> DecryptData(key, file.api_key),
                   api_secret |-> DecryptData(key, file.api_secret),
                   access_token |-> DecryptData(key, file.access_token),
                   user_profile |-> file.user_profile,
                   created_at |-> file.created_at,
                   expires_at |-> file.expires_at],
          file |-> file]

\* load_session at time t: what it returns and the file afterwards
LoadSession(key, file, t) ==
    IF ~file.exists THEN [ret |-> None, file |-> file]
    ELSE IF t > FromIsoFormat(file.expires_at)
         THEN [ret |-> None, file |-> ClearSession(file)]
    ELSE IF \/ DecryptRaises(key, file.api_key)
            \/ DecryptRaises(key, file.api_secret)
            \/ DecryptRaises(key, file.access_token)
         THEN [ret |-> None, file |-> ClearSession(file)]
    ELSE [ret |-> [api_key |-> DecryptData(key, file.api_key),
                   api_secret |-> DecryptData(key, file.api_secret),
                   access_token |-> DecryptData(key, file.access_token),
                   user_profile |-> file.user_profile,
                   created_at |-> file.created_at,
                   expires_at |-> file.expires_at],
          file |-> file]

\* KiteConnect(api_key=...) with set_access_token(...)
Kite(api_key, access_token) == [api_key |-> api_key, access_token |-> access_token]

\* the session state with a restored session in it
Restored(state, session_data) ==
    [k \in DOMAIN state \cup {"kite", "logged_in", "api_key", "api_secret",
                              "access_token", "user_profile"} |->
        CASE k = "kite" -> Kite(session_data.api_key, session_data.access_token)
          [] k = "logged_in" -> TRUE
          [] k = "api_key" -> session_data.api_key
          [] k = "api_secret" -> session_data.api_secret
          [] k = "access_token" -> session_data.access_token
          [] k = "user_profile" -> session_data.user_profile
          [] OTHER -> state[k]]

\* (variant: the session state is filled in before the session is validated)
RestoreSessionToStreamlit_Early(key, state, file, t, profile_ok) ==
    LET l == LoadSession(key, file, t)
        session_data == l.ret
    IN IF session_data = None
       THEN [ok |-> FALSE, state |-> state, file |-> l.file, loaded |-> l.ret,
             validated |-> "not called"]
       ELSE IF ~profile_ok
            THEN [ok |-> FALSE, state |-> Restored(state, session_data),
                  file |-> ClearSession(l.file),
                  loaded |-> l.ret, validated |-> "failed"]
       ELSE [ok |-> TRUE, state |-> Restored(state, session_data),
             file |-> l.file, loaded |-> l.ret, validated |-> "ok"]

\* restore_session_to_streamlit at time t; profile_ok says whether
\* kite.profile() answers.  It gives its return, the session state and the
\* file afterwards, and what load_session and validate_session returned.
RestoreSessionToStreamlit(key, state, file, t, profile_ok) ==
    LET l == LoadSession(key, file, t)
        session_data == l.ret
    IN IF session_data = None
       THEN [ok |-> FALSE, state |-> state, file |-> l.file, loaded |-> l.ret,
             validated |-> "not called"]
       ELSE IF ~profile_ok
            THEN [ok |-> FALSE, state |-> state, file |-> ClearSession(l.file),
                  loaded |-> l.ret, validated |-> "failed"]
       ELSE [ok |-> TRUE, state |-> Restored(state, session_data),
             file |-> l.file, loaded |-> l.ret, validated |-> "ok"]

\* initialize_session_state: the defaults of the keys not yet there
InitializeSessionState(state) ==
    [k \in DOMAIN state \cup {"kite", "logged_in", "api_key", "api_secret",
                              "access_token", "user_profile"} |->
        IF k \in DOMAIN state THEN state[k]
        ELSE CASE k = "kite" -> None
               [] k = "logged_in" -> FALSE
               [] k = "user_profile" -> None
               [] OTHER -> ""]

\* keys_to_clear of logout_and_clear_session
KeysToClear ==
    {"kite", "logged_in", "api_key", "api_secret", "access_token",
     "user_profile", "session_manager"}

\* the observation after a clear_session or a save_session
SavedAfter(file_before, file_after) ==
    IF file_before.exists /\ ~file_after.exists THEN NoSave ELSE saved

\* the next value of sessionRet
Ran(fn, loaded, validated, ok) ==
    [fn |-> fn, turn |-> 1 - sessionRet.turn, loaded |-> loaded,
     validated |-> validated, ok |-> ok]
NotLoaded == [called |-> FALSE]
Loaded(data) == [called |-> TRUE, ret |-> data]

\* a script run, main() up to its routing: initialize_session_state, then
\* initialize_persistent_session with the session manager it may create and
\* the restore it tries when nobody is logged in
AppStart(generated, profile_ok) ==
    LET st1 == InitializeSessionState(session_state)
        create == "session_manager" \notin DOMAIN st1
        k == GetOrCreateEncryptionKey(key_file, generated)
        st2 == IF create
               THEN Put(st1, "session_manager", [encryption_key |-> k.key])
               ELSE st1
        r == RestoreSessionToStreamlit(st2["session_manager"].encryption_key,
                                       st2, session_file, sessionNow, profile_ok)
    IN /\ key_file' = IF create THEN k.file ELSE key_file
       /\ IF ~st2["logged_in"]
          THEN /\ session_state' = r.state
               /\ session_file' = r.file
               /\ saved' = SavedAfter(session_file, r.file)
               /\ sessionRet' = Ran("main", Loaded(r.loaded), r.validated, r.ok)
          ELSE /\ session_state' = st2
               /\ sessionRet' = Ran("main", NotLoaded, "not called", FALSE)
               /\ UNCHANGED <<session_file, saved>>
       /\ UNCHANGED <<sessionNow, liveVars, universeVars, engineVars, pureVars,
                      allCacheVars>>

\* the run has reached the login page
LoginPageShown ==
    /\ sessionRet.fn = "main"
    /\ ~sessionRet.ok
    /\ ~session_state["logged_in"]

\* the run has reached the dashboard
DashboardShown ==
    /\ sessionRet.fn = "main"
    /\ ~sessionRet.ok
    /\ session_state["logged_in"]

\* "Complete Login & Save Session" with credentials c: the session state,
\* then save_current_session
Login(c) ==
    /\ LoginPageShown
    /\ LET state == [k \in DOMAIN session_state |->
                       CASE k = "kite" -> Kite(c.api_key, c.access_token)
                         [] k = "logged_in" -> TRUE
                         [] k = "api_key" -> c.api_key
                         [] k = "api_secret" -> c.api_secret
                         [] k = "access_token" -> c.access_token
                         [] k = "user_profile" -> c.user_profile
                         [] OTHER -> session_state[k]]
       IN /\ session_state' = state
          /\ IF "session_manager" \in DOMAIN state /\ state["logged_in"]
             THEN /\ session_file' =
                       SaveSession(state["session_manager"].encryption_key,
                                   [api_key |-> state["api_key"],
                                    api_secret |-> state["api_secret"],
                                    access_token |-> state["access_token"],
                                    user_profile |-> state["user_profile"]],
                                   sessionNow)
                  /\ saved' = [valid |-> TRUE, at |-> sessionNow,
                               credentials |-> c]
             ELSE UNCHANGED <<session_file, saved>>
    /\ sessionRet' = Ran("login", NotLoaded, "not called", TRUE)
    /\ UNCHANGED <<key_file, sessionNow, liveVars, universeVars, engineVars,
                   pureVars, allCacheVars>>

\* display_session_info in the dashboard's sidebar: get_session_info, which
\* runs load_session
DisplaySessionInfo ==
    /\ DashboardShown
    /\ IF "session_manager" \in DOMAIN session_state
       THEN LET l == LoadSession(session_state["session_manager"].encryption_key,
                                 session_file, sessionNow)
            IN /\ session_file' = l.file
               /\ saved' = SavedAfter(session_file, l.file)
               /\ sessionRet' = Ran("info", Loaded(l.ret), "not called",
                                    l.ret # None)
       ELSE /\ sessionRet' = Ran("info", NotLoaded, "not called", FALSE)
            /\ UNCHANGED <<session_file, saved>>
    /\ UNCHANGED <<key_file, session_state, sessionNow, liveVars, universeVars,
                   engineVars, pureVars, allCacheVars>>

\* a button of the dashboard can be pressed: the sidebar is drawn
ButtonsShown == sessionRet.fn = "info"

\* (variant: logout leaves the session file)
LogoutAndClearSession_KeepFile ==
    /\ ButtonsShown
    /\ session_state' = Remove(session_state, KeysToClear)
    /\ sessionRet' = Ran("logout", NotLoaded, "not called", TRUE)
    /\ UNCHANGED <<session_file, saved, key_file, sessionNow, liveVars,
                   universeVars, engineVars, pureVars, allCacheVars>>

\* logout_and_clear_session
LogoutAndClearSession ==
    /\ ButtonsShown
    /\ IF "session_manager" \in DOMAIN session_state
       THEN /\ session_file' = ClearSession(session_file)
            /\ saved' = NoSave
       ELSE UNCHANGED <<session_file, saved>>
    /\ session_state' = Remove(session_state, KeysToClear)
    /\ sessionRet' = Ran("logout", NotLoaded, "not called", TRUE)
    /\ UNCHANGED <<key_file, sessionNow, liveVars, universeVars, engineVars,
                   pureVars, allCacheVars>>

\* "Refresh Session": restore_session_to_streamlit from the dashboard
RefreshSession(profile_ok) ==
    /\ ButtonsShown
    /\ "session_manager" \in DOMAIN session_state
    /\ LET r == RestoreSessionToStreamlit(
                    session_state["session_manager"].encryption_key,
                    session_state, session_file, sessionNow, profile_ok)
       IN /\ session_state' = r.state
          /\ session_file' = r.file
          /\ saved' = SavedAfter(session_file, r.file)
          /\ sessionRet' = Ran("refresh", Loaded(r.loaded), r.validated, r.ok)
    /\ UNCHANGED <<key_file, sessionNow, liveVars, universeVars, engineVars,
                   pureVars, allCacheVars>>

\* the browser session ends and a new one opens the app: an empty
\* st.session_state
NewBrowserSession ==
    /\ session_state # <<>>
    /\ session_state' = <<>>
    /\ sessionRet' = Ran("none", NotLoaded, "not called", FALSE)
    /\ UNCHANGED <<key_file, session_file, sessionNow, saved, liveVars,
                   universeVars, engineVars, pureVars, allCacheVars>>

\* half a day passes
SessionTick ==
    /\ sessionNow < MaxTime
    /\ sessionNow' = sessionNow + 1
    /\ UNCHANGED <<key_file, session_file, session_state, sessionRet, saved,
                   liveVars, universeVars, engineVars, pureVars, allCacheVars>>

SessionNext ==
    \/ \E g \in FernetKeys, profile_ok \in BOOLEAN : AppStart(g, profile_ok)
    \/ \E c \in Credentials : Login(c)
    \/ DisplaySessionInfo
    \/ LogoutAndClearSession
    \/ \E profile_ok \in BOOLEAN : RefreshSession(profile_ok)
    \/ NewBrowserSession
    \/ SessionTick

\* the dashboard's runs in one browser session after another
SessionSpec == Init /\ [][SessionNext]_vars

\* ================================================ the live pre-market fetch
\* self.api_limit_per_minute
ApiLimitPerMinute == 100
\* batch_size of fetch_live_data
BatchSize == 20
\* check_api_limits resets the counter from this many seconds on
ResetSeconds == 60
\* the seconds of a day: timedelta.seconds is the part below one day
DaySeconds == 86400

\* (now - then).seconds for now - then = elapsed seconds
TimedeltaSeconds(elapsed) == elapsed % DaySeconds

\* the lengths of the symbol lists fetch_live_data is called with
LiveListLengths == {0, 1, 20, 21, 60}
\* the seconds between last_reset_time and a call
LiveElapsedValues ==
    {0, 30, 59, 60, 61, DaySeconds - 1, DaySeconds, DaySeconds + 30,
     DaySeconds + ResetSeconds}

\* range(0, len(symbols), batch_size): the number of batches
Batches(n) == (n + BatchSize - 1) \div BatchSize

\* check_api_limits with the counter at count, elapsed seconds after the
\* last reset: the counter and the elapsed time afterwards, and its return
CheckApiLimits(count, elapsed) ==
    LET reset == TimedeltaSeconds(elapsed) >= ResetSeconds
        counted == IF reset THEN 0 ELSE count
    IN [count |-> counted,
        elapsed |-> IF reset THEN 0 ELSE elapsed,
        reset |-> reset,
        ok |-> counted < ApiLimitPerMinute]

\* fetch_live_data with a list of n symbols, elapsed seconds after the last
\* reset; good of the kite.quote calls answer, and if that is not all of
\* them the next one raises and ends the loop
FetchLiveData(elapsed, n, good) ==
    /\ elapsed >= liveElapsed
    /\ good <= Batches(n)
    /\ LET c == CheckApiLimits(api_call_count, elapsed)
           issued == IF ~c.ok THEN 0
                     ELSE IF good < Batches(n) THEN good + 1 ELSE good
       IN /\ api_call_count' = IF c.ok THEN c.count + good ELSE c.count
          /\ liveElapsed' = c.elapsed
          /\ liveLast' = [made |-> TRUE, elapsed |-> elapsed, reset |-> c.reset,
                          before |-> c.count, issued |-> issued]
    /\ UNCHANGED <<sessionVars, universeVars, engineVars, pureVars,
                   allCacheVars>>

LiveNext ==
    \E elapsed \in LiveElapsedValues, n \in LiveListLengths,
       good \in 0..Batches(60) : FetchLiveData(elapsed, n, good)

\* one LivePreMarketSystem and its callers
LiveSpec == Init /\ [][LiveNext]_vars

\* ==================================================== the instrument list
\* _cache_expired: the cache is good for this many seconds
UniverseCacheSeconds == 3600
\* what kite.instruments("NSE") can do: the list of the day, or an exception
InstrumentAnswers == {"list1", "list2", "list3", "raise"}
\* the seconds between last_update and a call
UniverseElapsedValues ==
    {0, 60, 600, 1800, 3599, 3600, 3601, 7200, DaySeconds \div 2,
     DaySeconds - 1, DaySeconds, DaySeconds + 60, DaySeconds + 1800,
     DaySeconds + 3600, DaySeconds + 3601, DaySeconds + 7200,
     2 * DaySeconds + 60, 2 * DaySeconds + 7200}

\* _cache_expired, elapsed seconds after last_update
CacheExpired(elapsed) ==
    IF elapsed = NoUpdate THEN TRUE
    ELSE TimedeltaSeconds(elapsed) > UniverseCacheSeconds

\* get_all_nse_instruments, elapsed seconds after last_update, with the
\* broker answering api if asked
GetAllNseInstruments(elapsed, api) ==
    /\ elapsed >= universeElapsed
    /\ LET age == IF universeElapsed = NoUpdate THEN NoUpdate ELSE elapsed
           fetch == instruments_cache = None \/ CacheExpired(age)
           cached == IF fetch /\ api # "raise"
                     THEN [rows |-> api] ELSE instruments_cache
       IN /\ instruments_cache' = cached
          /\ universeElapsed' = IF fetch /\ api # "raise" THEN 0 ELSE age
          /\ universeLast' =
                [made |-> TRUE, elapsed |-> age, had |-> instruments_cache,
                 fetched |-> fetch,
                 returned |-> IF fetch /\ api = "raise"
                              THEN [empty |-> TRUE]
                              ELSE [copy |-> TRUE, rows |-> cached.rows]]
    /\ UNCHANGED <<sessionVars, liveVars, engineVars, pureVars, allCacheVars>>

UniverseNext ==
    \E elapsed \in UniverseElapsedValues, api \in InstrumentAnswers :
       GetAllNseInstruments(elapsed, api)

\* one InstrumentUniverseManager and its callers
UniverseSpec == Init /\ [][UniverseNext]_vars

\* ------------------------------------------------------------------ claims
\* a step in which task i runs its _get_from_cache
IsTaskGet(i) == task[i].pc = "ready" /\ task'[i].pc \in {"done", "fetch"}
\* a step in which the caller's loop runs its _get_from_cache
IsCheckCache == mainPc = "check" /\ idx' = idx + 1
\* the latest put of key k is less than CacheDuration old
FreshPut(k) == lastPut[k].valid /\ now - lastPut[k].at < CacheDuration

\* C1: a _get_from_cache of a key whose latest _set_cache completed less than
\* CacheDuration ago, with no clear_cache since, returns the payload that
\* was put.
C1_PutThenGet ==
    [][/\ \A i \in TaskIds :
            IsTaskGet(i) /\ FreshPut(StockKey(task[i].symbol))
            => /\ task'[i].pc = "done"
               /\ task'[i].result = lastPut[StockKey(task[i].symbol)].payload
       /\ IsCheckCache /\ FreshPut(StockKey(symbols[idx]))
            => /\ symbols[idx] \in DOMAIN results'
               /\ results'[symbols[idx]] = lastPut[StockKey(symbols[idx])].payload
      ]_vars

\* C1 witness: the caller's loop has just been answered from the cache with
\* the payload of a put less than CacheDuration old.
C1_Witness ==
    /\ mainPc = "check"
    /\ idx > 1
    /\ symbols[idx - 1] \in DOMAIN results
    /\ FreshPut(StockKey(symbols[idx - 1]))
    /\ results[symbols[idx - 1]] = lastPut[StockKey(symbols[idx - 1])].payload

\* the entry of key k is missing or at least CacheDuration old
Expired(k) ==
    \/ k \notin DOMAIN cache_timestamps
    \/ now - cache_timestamps[k] >= CacheDuration
\* the entry of key k is missing or more than CacheDuration old
ExpiredStrictly(k) ==
    \/ k \notin DOMAIN cache_timestamps
    \/ now - cache_timestamps[k] > CacheDuration

\* C2 (as amended): a _get_from_cache misses exactly when the key has no entry
\* or the entry's age is at least CacheDuration; a younger entry is returned.
C2_MissIffExpired ==
    [][/\ \A i \in TaskIds :
            IsTaskGet(i) =>
               /\ (task'[i].pc = "fetch") <=> Expired(StockKey(task[i].symbol))
               /\ task'[i].pc = "done" =>
                     task'[i].result = cache[StockKey(task[i].symbol)]
       /\ IsCheckCache =>
               /\ (uncached_symbols' # uncached_symbols)
                     <=> Expired(StockKey(symbols[idx]))
               /\ uncached_symbols' = uncached_symbols =>
                     results'[symbols[idx]] = cache[StockKey(symbols[idx])]
      ]_vars

\* C2 as claimed: a _get_from_cache misses exactly when the key has no entry or
\* the entry's age is strictly greater than CacheDuration.
C2_MissIffOlder ==
    [][/\ \A i \in TaskIds :
            IsTaskGet(i) =>
               (task'[i].pc = "fetch") <=> ExpiredStrictly(StockKey(task[i].symbol))
       /\ IsCheckCache =>
               (uncached_symbols' # uncached_symbols)
                  <=> ExpiredStrictly(StockKey(symbols[idx]))
      ]_vars

\* C2 witness: the caller's loop has missed on an entry whose age is exactly
\* CacheDuration.
C2_Witness ==
    /\ mainPc = "check"
    /\ idx > 1
    /\ symbols[idx - 1] \in Range(uncached_symbols)
    /\ StockKey(symbols[idx - 1]) \in DOMAIN cache_timestamps
    /\ now - cache_timestamps[StockKey(symbols[idx - 1])] = CacheDuration

\* the symbols of the futures of this call
FetchedSymbols == {task[i].symbol : i \in Futures}

\* C3: a call with distinct symbols of which exactly one fails to fetch returns
\* one entry per requested symbol, 'error' for the failing one and 'success'
\* for each other.
C3_OneFailure ==
    (mainPc = "returned" /\ Distinct(symbols) /\ Cardinality(failed) = 1)
    => /\ DOMAIN results = Range(symbols)
       /\ Cardinality(DOMAIN results) = Len(symbols)
       /\ \A i \in Futures :
             results[task[i].symbol].status =
                IF i \in failed THEN "error" ELSE "success"
       /\ \A s \in Range(symbols) \ FetchedSymbols :
             results[s].status = "success"

\* C3 witness: a call with two distinct symbols has returned and exactly one
\* of them failed to fetch.
C3_Witness ==
    /\ mainPc = "returned"
    /\ Distinct(symbols)
    /\ Len(symbols) = 2
    /\ Cardinality(failed) = 1

\* C4 as claimed: when a task never completes, the timeout has elapsed for it
\* and no other future is left to collect, the call goes on (it reports the
\* task as an error and returns) instead of waiting for the task.
C4_TimeoutEndsWait ==
    \A i \in TaskIds :
        (/\ mainPc = "collect"
         /\ task[i].pc = "hung"
         /\ now - task[i].at >= TimeoutTicks
         /\ Completed = {})
        => ENABLED MainStep

\* C5: whenever the lock is free each key is in the payload map exactly if it
\* is in the timestamp map, and a thread in the middle of a write or a clear
\* holds the lock.
C5_LockedAccess ==
    /\ lock = NoThread => DOMAIN cache = DOMAIN cache_timestamps
    /\ \A i \in TaskIds : task[i].pc = "put2" => lock = i
    /\ uiPc \in {"clear2", "expire2", "stats"} => lock = UiThread

\* C5 witness: a task holds the lock between the two statements of _set_cache,
\* with the payload written and the timestamp not yet.
C5_Witness ==
    /\ lock \in TaskIds
    /\ DOMAIN cache # DOMAIN cache_timestamps

\* C6 as claimed: for every list of requested symbols each cache key is
\* written by at most one task of the call.
C6_OneWriterAnyList == \A k \in Keys : Cardinality(writers[k]) <= 1

\* C6 (as amended): for every list of distinct requested symbols each cache
\* key is written by at most one task of the call.
C6_OneWriter == Distinct(symbols) => \A k \in Keys : Cardinality(writers[k]) <= 1

\* C6 witness: two tasks of a call with two distinct symbols each wrote the
\* slot of their own symbol.
C6_Witness ==
    /\ Distinct(symbols)
    /\ Len(symbols) = 2
    /\ \A n \in 1..2 : Cardinality(writers[StockKey(symbols[n])]) = 1

\* the requested symbols whose lookup found no valid entry, in request order
RECURSIVE Misses(_)
Misses(n) ==
    IF n = 0 THEN <<>>
    ELSE IF checked[n] THEN Misses(n - 1)
    ELSE Append(Misses(n - 1), symbols[n])

\* C7: the call submits a task for exactly the requested symbols that had no
\* valid entry when the call looked them up, answers the others from the
\* cache, and returns only after every submitted task has finished.
C7_FanOutJoin ==
    /\ \A n \in DOMAIN checked : checked[n] => symbols[n] \in DOMAIN results
    /\ mainPc \in {"collect", "returned"} =>
          /\ Len(checked) = Len(symbols)
          /\ \A i \in TaskIds :
                IF i <= Len(Misses(Len(symbols)))
                THEN task[i].pc # "none" /\ task[i].symbol = Misses(Len(symbols))[i]
                ELSE task[i] = NoTask
    /\ mainPc = "returned" => \A i \in Futures : task[i].pc = "done"

\* C7 witness: a call has returned that answered one symbol from the cache
\* and fetched another.
C7_Witness ==
    /\ mainPc = "returned"
    /\ \E n \in DOMAIN checked : checked[n]
    /\ \E n \in DOMAIN checked : ~checked[n]
    /\ Futures # {}

\* the daily timeframe of analysis a offers no indicator: the entry is absent,
\* has no indicator mapping, or has an empty one
NoDailyIndicator(a) ==
    \/ "daily" \notin DOMAIN a.timeframes
    \/ "indicators" \notin DOMAIN a.timeframes["daily"]
    \/ DOMAIN a.timeframes["daily"].indicators = {}

\* C8 as claimed: whenever the daily timeframe offers no available indicator,
\* absent or present with an empty indicator mapping, the decision is exactly
\* HOLD, Low, score 0, 'Insufficient data for analysis'.
C8_NoIndicatorIsInsufficient ==
    (enginePc = "decided" /\ NoDailyIndicator(analysis))
    => decision = InsufficientData

\* the decision reports vote counts
HasCounts(d) == "bullish_signals" \in DOMAIN d

\* the daily indicators of a without the unavailable ones: a nan RSI, the ADX
\* when the RSI is unavailable (its rule needs the RSI), a MACD record whose
\* MACD line or signal line is nan
Available(ind) ==
    LET noRsi == "rsi" \notin DOMAIN ind \/ IsNan(ind["rsi"])
        noMacd == /\ "macd" \in DOMAIN ind
                  /\ IsNan(ind["macd"].macd) \/ IsNan(ind["macd"].signal)
    IN [n \in {m \in DOMAIN ind :
                  /\ m = "rsi" => ~noRsi
                  /\ m = "adx" => ~noRsi
                  /\ m = "macd" => ~noMacd} |-> ind[n]]
LeftOut(a) ==
    [timeframes |->
        [tf \in DOMAIN a.timeframes |->
            IF tf = "daily"
            THEN [a.timeframes[tf] EXCEPT
                     !.indicators = Available(a.timeframes[tf].indicators)]
            ELSE a.timeframes[tf]]]

\* C9 as claimed: an unavailable indicator casts no vote: with the daily RSI
\* unavailable the ADX rule adds no vote, with the MACD line or the signal line
\* unavailable the MACD rule adds no vote, so the counts are those of the
\* snapshot without these indicators.
C9_UnavailableCastsNoVote ==
    (enginePc = "decided" /\ HasCounts(decision))
    => LET d == GenerateTradingDecision(LeftOut(analysis))
       IN /\ decision.bullish_signals = d.bullish_signals
          /\ decision.bearish_signals = d.bearish_signals

\* analysis a is one get_comprehensive_analysis builds: each timeframe entry
\* carries its data_points
Produced(a) ==
    \A tf \in DOMAIN a.timeframes : "data_points" \in DOMAIN a.timeframes[tf]

\* analysis a without its 30-minute timeframe
Without30(a) ==
    [timeframes |-> [tf \in DOMAIN a.timeframes \ {Min30Key} |-> a.timeframes[tf]]]

\* C10 as claimed: when an analysis of get_comprehensive_analysis holds a
\* 30-minute timeframe with an RSI, the decision has one bullish vote more
\* than without that timeframe if the daily and the 30-minute RSI are both
\* below 40, and one bearish vote more if both are above 60.
C10_SecondTimeframeVotes ==
    (/\ enginePc = "decided"
     /\ HasCounts(decision)
     /\ Produced(analysis)
     /\ Min30Key \in DOMAIN analysis.timeframes
     /\ "rsi" \in DOMAIN analysis.timeframes[Min30Key].indicators)
    => LET d == GenerateTradingDecision(Without30(analysis))
           daily_rsi == Get(analysis.timeframes["daily"].indicators, "rsi", NaN)
           min30_rsi == analysis.timeframes[Min30Key].indicators["rsi"]
       IN /\ Lt(daily_rsi, 40) /\ Lt(min30_rsi, 40)
               => decision.bullish_signals = d.bullish_signals + 1
          /\ Gt(daily_rsi, 60) /\ Gt(min30_rsi, 60)
               => decision.bearish_signals = d.bearish_signals + 1

\* the caller has the return of function fn
Returned(fn) == fnPc = "returned" /\ call.fn = fn

\* C11: for every pair of counts the final mapping gives BUY for a net score
\* of 2 or more (High from 3 on, else Medium), SELL for -2 or less (High
\* from -3 down, else Medium), and HOLD otherwise (Medium when the counts add
\* up to 3 or more, else Low).
C11_FinalMapping ==
    Returned("final_decision") =>
        LET net == call.bullish - call.bearish
            total == call.bullish + call.bearish
        IN /\ net >= 2 =>
                 /\ ret.decision = "BUY"
                 /\ ret.confidence = IF net >= 3 THEN "High" ELSE "Medium"
           /\ net <= 0 - 2 =>
                 /\ ret.decision = "SELL"
                 /\ ret.confidence = IF net <= 0 - 3 THEN "High" ELSE "Medium"
           /\ (net < 2 /\ net > 0 - 2) =>
                 /\ ret.decision = "HOLD"
                 /\ ret.confidence = IF total >= 3 THEN "Medium" ELSE "Low"

\* C11 witness: counts with a net score of exactly -2 came back as SELL with
\* Medium confidence.
C11_Witness ==
    /\ Returned("final_decision")
    /\ call.bullish - call.bearish = 0 - 2
    /\ ret.decision = "SELL"
    /\ ret.confidence = "Medium"

\* a step in which generate_trading_decision runs
IsDecide == enginePc = "analysed" /\ enginePc' = "decided"

MinimumWindow(name) ==
    CASE name \in {"rsi", "adx"} -> 14
      [] name = "macd" -> 26
      [] name \in {"bollinger_bands", "support_resistance"} -> 20
      [] name = "kst" -> 100

\* C14: an indicator function called on fewer rows than its minimum window
\* (14 for RSI and ADX, 26 for MACD, 20 for Bollinger Bands and
\* support/resistance, 100 for KST), an empty frame included, returns nan or
\* a record of nan only, whatever the indicator library does.
C14_ShortSeriesUnavailable ==
    (Returned("indicator") /\ call.bars < MinimumWindow(call.name))
    => AllNan(ret)

\* C14 witness: calculate_macd on 25 rows, on which the library would give a
\* value, returned a record of nan only.
C14_Witness ==
    /\ Returned("indicator")
    /\ call.name = "macd"
    /\ call.bars = 25
    /\ call.lib = "value"
    /\ AllNan(ret)

\* the daily indicators of the analysis
DailyIndicators == analysis.timeframes["daily"].indicators
\* the analysis without the daily indicator name
WithoutDaily(name) ==
    [timeframes |->
        [tf \in DOMAIN analysis.timeframes |->
            IF tf = "daily"
            THEN [analysis.timeframes[tf] EXCEPT
                     !.indicators =
                        [n \in DOMAIN DailyIndicators \ {name} |->
                            DailyIndicators[n]]]
            ELSE analysis.timeframes[tf]]]

\* C15: with no other rule voting, the decision on an available daily RSI v
\* has two bullish votes if v < 30, two bearish votes if v > 70, one bullish
\* vote if 40 <= v <= 60, and no vote if 30 <= v < 40 or 60 < v <= 70.
C15_RsiVotes ==
    (/\ enginePc = "decided"
     /\ HasCounts(decision)
     /\ "rsi" \in DOMAIN DailyIndicators
     /\ "adx" \in DOMAIN DailyIndicators => DailyIndicators["adx"] <= 25)
    => LET v == DailyIndicators["rsi"]
           bull == decision.bullish_signals
           bear == decision.bearish_signals
       IN /\ v < 30 => bull = 2 /\ bear = 0
          /\ v > 70 => bull = 0 /\ bear = 2
          /\ (40 <= v /\ v <= 60) => bull = 1 /\ bear = 0
          /\ (30 <= v /\ v < 40) => bull = 0 /\ bear = 0
          /\ (60 < v /\ v <= 70) => bull = 0 /\ bear = 0

\* C15 witness: a daily RSI of exactly 60 got one bullish vote.
C15_Witness ==
    /\ enginePc = "decided"
    /\ HasCounts(decision)
    /\ DOMAIN DailyIndicators = {"rsi"}
    /\ DailyIndicators["rsi"] = 60
    /\ decision.bullish_signals = 1
    /\ decision.bearish_signals = 0

\* C16: an available daily ADX above 25 adds exactly one vote to the counts
\* of the analysis without it, a bullish one if the daily RSI is above 50 and
\* a bearish one otherwise (an RSI of exactly 50 included); an ADX of 25 or
\* less adds none.
C16_AdxVotes ==
    (/\ enginePc = "decided"
     /\ HasCounts(decision)
     /\ "adx" \in DOMAIN DailyIndicators)
    => LET d == GenerateTradingDecision(WithoutDaily("adx"))
           adx == DailyIndicators["adx"]
           rsiAbove == /\ "rsi" \in DOMAIN DailyIndicators
                       /\ DailyIndicators["rsi"] > 50
           bull == decision.bullish_signals - d.bullish_signals
           bear == decision.bearish_signals - d.bearish_signals
       IN /\ (adx > 25 /\ rsiAbove) => bull = 1 /\ bear = 0
          /\ (adx > 25 /\ ~rsiAbove) => bull = 0 /\ bear = 1
          /\ adx <= 25 => bull = 0 /\ bear = 0

\* C16 witness: an ADX of 26 with an RSI of exactly 50 gave one bearish vote
\* next to the RSI's bullish one.
C16_Witness ==
    /\ enginePc = "decided"
    /\ HasCounts(decision)
    /\ DOMAIN DailyIndicators = {"rsi", "adx"}
    /\ DailyIndicators["adx"] = 26
    /\ DailyIndicators["rsi"] = 50
    /\ decision.bullish_signals = 1
    /\ decision.bearish_signals = 1

\* the indicators of timeframe tf that frame d makes available
AvailableNames(tf, d) ==
    {n \in {"rsi"} : d.bars >= 14 /\ ~IsNan(d.rsi)}
    \cup {n \in {"adx"} :
             tf \in {"daily", "30m"} /\ d.bars >= 14 /\ ~IsNan(d.adx)}
    \cup {n \in {"macd"} :
             tf = "daily" /\ d.bars >= 26 /\ ~(IsNan(d.macd) /\ IsNan(d.signal))}
    \cup {n \in {"bollinger_bands"} :
             tf = "daily" /\ d.bars >= 20 /\ ~IsNan(d.position)}
    \cup {n \in {"support_resistance"} :
             tf = "daily" /\ d.bars >= 20
             /\ ~(IsNan(d.support) /\ IsNan(d.resistance))}

\* C18: get_comprehensive_analysis returns an analysis that holds each
\* timeframe with at least 10 rows whose processing did not raise, whatever
\* happened to the other timeframes, and in each of them exactly the
\* indicators that are available.
C18_LocalFailures ==
    Returned("comprehensive_analysis") =>
        /\ "timeframes" \in DOMAIN ret
        /\ \A tf \in Range(TimeframeNames) :
              LET d == call.data[tf]
              IN /\ tf \in DOMAIN ret.timeframes
                       <=> (d.bars >= 10 /\ ~d.raises)
                 /\ tf \in DOMAIN ret.timeframes =>
                       DOMAIN ret.timeframes[tf].indicators
                          = AvailableNames(tf, d)

\* C18 witness: the daily timeframe has 15 rows and got RSI and ADX but none
\* of MACD, Bollinger Bands and support/resistance, the 15-minute timeframe
\* raised, and the 5-minute timeframe after it is in the analysis.
C18_Witness ==
    /\ Returned("comprehensive_analysis")
    /\ call.data["daily"].bars = 15
    /\ "daily" \in DOMAIN ret.timeframes
    /\ DOMAIN ret.timeframes["daily"].indicators = {"rsi", "adx"}
    /\ call.data["15m"].raises
    /\ "15m" \notin DOMAIN ret.timeframes
    /\ "5m" \in DOMAIN ret.timeframes

\* key k has a stored entry whose age exceeds CacheDuration
Stale(k) ==
    /\ k \in DOMAIN cache
    /\ k \in DOMAIN cache_timestamps
    /\ now - cache_timestamps[k] > CacheDuration
\* get_cache_stats of the cache after the step
StatsAfter == CacheStats(cache', cache_timestamps', now')

\* C19 as claimed: a _get_from_cache of a key whose entry's age exceeds
\* CacheDuration returns MISS and removes the entry, so total_cached_items is
\* one less after it.
C19_MissEvicts ==
    [][/\ \A i \in TaskIds :
            (IsTaskGet(i) /\ Stale(StockKey(task[i].symbol)))
            => /\ task'[i].pc = "fetch"
               /\ StockKey(task[i].symbol) \notin DOMAIN cache'
               /\ StatsAfter.total_cached_items = Cardinality(DOMAIN cache) - 1
       /\ (IsCheckCache /\ Stale(StockKey(symbols[idx])))
            => /\ uncached_symbols' # uncached_symbols
               /\ StockKey(symbols[idx]) \notin DOMAIN cache'
               /\ StatsAfter.total_cached_items = Cardinality(DOMAIN cache) - 1
      ]_vars

\* C19 (as amended): a _get_from_cache of a key whose entry's age exceeds
\* CacheDuration returns MISS and leaves the entry stored: after it the entry
\* still counts toward total_cached_items and not toward valid_cached_items.
C19_MissKeepsEntry ==
    [][/\ \A i \in TaskIds :
            (IsTaskGet(i) /\ Stale(StockKey(task[i].symbol)))
            => /\ task'[i].pc = "fetch"
               /\ cache' = cache
               /\ cache_timestamps' = cache_timestamps
               /\ StatsAfter.total_cached_items = Cardinality(DOMAIN cache)
               /\ StatsAfter.valid_cached_items < StatsAfter.total_cached_items
       /\ (IsCheckCache /\ Stale(StockKey(symbols[idx])))
            => /\ uncached_symbols' # uncached_symbols
               /\ cache' = cache
               /\ cache_timestamps' = cache_timestamps
               /\ StatsAfter.total_cached_items = Cardinality(DOMAIN cache)
               /\ StatsAfter.valid_cached_items < StatsAfter.total_cached_items
      ]_vars

\* C19 witness: a task's lookup has missed on an entry that is older than
\* CacheDuration and still stored, and get_cache_stats counts it as cached
\* and not as valid.
C19_Witness ==
    /\ \E i \in TaskIds :
          /\ task[i].pc = "fetch"
          /\ Stale(StockKey(task[i].symbol))
    /\ LET s == CacheStats(cache, cache_timestamps, now)
       IN /\ s.total_cached_items = Cardinality(DOMAIN cache)
          /\ s.valid_cached_items < s.total_cached_items

\* 50 + rs / 2 kept within 0 and 100, in units of 0.0001
ClampedRank(rs) ==
    LET r == 50 * Scale + rs \div 2
    IN IF r < 0 THEN 0 ELSE IF r > 100 * Scale THEN 100 * Scale ELSE r
\* y is x rounded to a multiple of step
IsRounded(y, x, step) ==
    /\ y % step = 0
    /\ 2 * (y - x) <= step
    /\ 2 * (x - y) <= step
\* calculate_relative_strength returned a numeric relative_strength
NumericStrength ==
    Returned("relative_strength") /\ ~IsNan(ret.relative_strength)

\* C20 as claimed: in every record with a numeric relative_strength, rs_rank
\* is 50 + relative_strength / 2 of the returned relative_strength kept within
\* 0 and 100, and outperformance is 'Outperforming' exactly when the returned
\* relative_strength is above 0, 'Underperforming' otherwise.
C20_RankOfReturnedStrength ==
    NumericStrength =>
        /\ ret.rs_rank = ClampedRank(ret.relative_strength)
        /\ 0 <= ret.rs_rank /\ ret.rs_rank <= 100 * Scale
        /\ ret.outperformance =
              IF ret.relative_strength > 0
              THEN "Outperforming" ELSE "Underperforming"

\* C20 (as amended): in every record with a numeric relative_strength, with
\* rs the stock's return minus the benchmark's before any rounding: the
\* returned relative_strength is rs rounded to 2 decimals, rs_rank is
\* 50 + rs / 2 kept within 0 and 100 and rounded to 1 decimal, and
\* outperformance is 'Outperforming' exactly when rs is above 0,
\* 'Underperforming' otherwise.
C20_RankOfStrength ==
    NumericStrength =>
        LET rs == call.stock_return - call.benchmark_return
        IN /\ IsRounded(ret.relative_strength, rs, Scale \div 100)
           /\ IsRounded(ret.rs_rank, ClampedRank(rs), Scale \div 10)
           /\ 0 <= ret.rs_rank /\ ret.rs_rank <= 100 * Scale
           /\ ret.outperformance =
                 IF rs > 0 THEN "Outperforming" ELSE "Underperforming"

\* C20 witness: a stock 0.004 percent ahead of its benchmark came back with
\* a relative_strength of 0.0, a rank of 50.0 and 'Outperforming'.
C20_Witness ==
    /\ NumericStrength
    /\ call.stock_return - call.benchmark_return = 40
    /\ ret.relative_strength = 0
    /\ ret.rs_rank = 50 * Scale
    /\ ret.outperformance = "Outperforming"

\* the daily indicators of analysis a
DailyOf(a) == a.timeframes["daily"].indicators
\* analysis a without the daily indicator called name
DropDaily(a, name) ==
    [timeframes |->
        [tf \in DOMAIN a.timeframes |->
            IF tf = "daily"
            THEN [a.timeframes[tf] EXCEPT
                     !.indicators =
                         [n \in DOMAIN DailyOf(a) \ {name} |-> DailyOf(a)[n]]]
            ELSE a.timeframes[tf]]]
\* how often reason r stands in the reasons of decision d
Occurrences(d, r) == Cardinality({i \in DOMAIN d.reason : d.reason[i] = r})
\* the MACD line and the signal line of a are both available
MacdAvailable(a) ==
    /\ "macd" \in DOMAIN DailyOf(a)
    /\ ~IsNan(DailyOf(a)["macd"].macd)
    /\ ~IsNan(DailyOf(a)["macd"].signal)

\* C21: with the MACD line and the signal line both available the MACD rule
\* casts exactly one vote: the decision has one bullish vote more than the
\* decision on the same analysis without the MACD record if macd > signal,
\* and one bearish vote more otherwise, equal lines included; it names the
\* crossover of that vote once and the other crossover never.
C21_MacdVote ==
    (enginePc = "decided" /\ HasCounts(decision) /\ MacdAvailable(analysis))
    => LET d == GenerateTradingDecision(DropDaily(analysis, "macd"))
           up == DailyOf(analysis)["macd"].macd > DailyOf(analysis)["macd"].signal
       IN /\ decision.bullish_signals
                 = d.bullish_signals + (IF up THEN 1 ELSE 0)
          /\ decision.bearish_signals
                 = d.bearish_signals + (IF up THEN 0 ELSE 1)
          /\ Occurrences(decision, "MACD bullish crossover")
                 = (IF up THEN 1 ELSE 0)
          /\ Occurrences(decision, "MACD bearish crossover")
                 = (IF up THEN 0 ELSE 1)

\* C21 witness: a decision on equal MACD and signal lines with a bearish
\* vote of the MACD rule.
C21_Witness ==
    /\ enginePc = "decided"
    /\ HasCounts(decision)
    /\ MacdAvailable(analysis)
    /\ DailyOf(analysis)["macd"].macd = DailyOf(analysis)["macd"].signal
    /\ Occurrences(decision, "MACD bearish crossover") = 1
    /\ decision.bearish_signals >= 1

\* support and resistance of a are both available
LevelsAvailable(a) ==
    /\ "support_resistance" \in DOMAIN DailyOf(a)
    /\ ~IsNan(DailyOf(a)["support_resistance"].support)
    /\ ~IsNan(DailyOf(a)["support_resistance"].resistance)

\* C22 as claimed: with support and resistance available the decision has one
\* bullish vote more than the decision on the same analysis without the
\* levels when the close lies below 25% of the range, one bearish vote more
\* when it lies above 75%, and the same votes otherwise; with support equal
\* to resistance it has the same votes as without the levels, so the other
\* rules' votes are still counted.
C22_LevelVote ==
    (enginePc = "decided" /\ LevelsAvailable(analysis))
    => LET d == GenerateTradingDecision(DropDaily(analysis, "support_resistance"))
           support == DailyOf(analysis)["support_resistance"].support
           resistance == DailyOf(analysis)["support_resistance"].resistance
           width == resistance - support
           above == (analysis.timeframes["daily"].ohlcv.close - support) * 100
           low == width > 0 /\ above < 25 * width
           high == width > 0 /\ above > 75 * width
       IN /\ HasCounts(decision)
          /\ decision.bullish_signals
                 = d.bullish_signals + (IF low THEN 1 ELSE 0)
          /\ decision.bearish_signals
                 = d.bearish_signals + (IF high THEN 1 ELSE 0)

\* the rule a reason belongs to, by its place in the order RSI, ADX, MACD,
\* Bollinger Bands, support/resistance, multi-timeframe confirmation
RuleOfReason(r) ==
    CASE r \in {"Daily RSI oversold", "Daily RSI overbought",
                "Daily RSI neutral-bullish"} -> 1
      [] r \in {"Strong trend", "Weak trend"} -> 2
      [] r \in {"MACD bullish crossover", "MACD bearish crossover"} -> 3
      [] r \in {"Near lower Bollinger Band", "Near upper Bollinger Band"} -> 4
      [] r \in {"Near support level", "Near resistance level"} -> 5
      [] r \in {"Multi-timeframe oversold confirmation",
                "Multi-timeframe overbought confirmation"} -> 6
      [] OTHER -> 0
\* the votes of the six rules on analysis a
VotesOf(a) == Votes(a.timeframes["daily"], Min30Indicators(a.timeframes))
\* the rules that produced a reason on a, and those that cast a vote
Reasoned(a) == {i \in 1..6 : VotesOf(a)[i].reasons # <<>>}
Voted(a) == {i \in 1..6 : VotesOf(a)[i].bullish + VotesOf(a)[i].bearish > 0}
\* the places of the reasons and of the separators in a joined string
Parts(str) == {i \in DOMAIN str : i % 2 = 1}
Gaps(str) == {i \in DOMAIN str : i % 2 = 0}

Without(m, ks) == [k \in DOMAIN m \ ks |-> m[k]]
\* a get of key k in this state gives MISS
GetMisses(k) == GetFromCache(cache, cache_timestamps, k, now) = MISS

\* C24: clear_expired_cache lists, at the time it reads the clock, exactly the
\* cached keys for which a get gives MISS, and removes exactly the listed
\* keys from the payload map and from the timestamp map, every other payload
\* and timestamp staying as it was; clear_cache leaves both maps empty, and a
\* key goes from MISS to a hit only by the timestamp write of a put of it.
C24_Clears ==
    [][/\ (uiPc = "idle" /\ uiPc' = "expire2")
            => expired_keys' =
                 {k \in DOMAIN cache \cup DOMAIN cache_timestamps : GetMisses(k)}
       /\ (uiPc = "expire2" /\ uiPc' = "idle")
            => /\ cache' = Without(cache, expired_keys)
               /\ cache_timestamps' = Without(cache_timestamps, expired_keys)
       /\ (uiPc = "clear2" /\ uiPc' = "idle")
            => /\ DOMAIN cache' = {}
               /\ DOMAIN cache_timestamps' = {}
               /\ \A k \in Keys : GetMisses(k)'
       /\ \A k \in Keys :
             (GetMisses(k) /\ ~GetMisses(k)')
             => \E i \in TaskIds :
                   /\ task[i].pc = "put2"
                   /\ task'[i].pc = "done"
                   /\ StockKey(task[i].symbol) = k]_vars

\* C24 witness: clear_expired_cache has listed an expired entry and holds
\* another entry that is still valid.
C24_Witness ==
    /\ uiPc = "expire2"
    /\ expired_keys # {}
    /\ \E k \in DOMAIN cache_timestamps \ expired_keys :
          /\ k \in DOMAIN cache
          /\ IsCacheValid(cache_timestamps, k, now)

\* the cache key of the fetch task t runs
KeyOfTask(t) ==
    IF t.pc \in {"iready", "ifetch", "iput", "iput2"}
    THEN IndexKey(t.symbol) ELSE StockKey(t.symbol)
\* the entry of key k: its payload and its timestamp, where it has them
Entry(c, ts, k) ==
    [payload |-> IF k \in DOMAIN c THEN <<c[k]>> ELSE <<>>,
     at |-> IF k \in DOMAIN ts THEN <<ts[k]>> ELSE <<>>]
\* task t is inside _set_cache or about to enter it
Putting(t) == t.pc \in {"put", "put2", "iput", "iput2"}

\* C30: every cached payload has status 'success'; the entry of a key
\* changes only in a put of a successful result for that key, so a fetch
\* that ends in an error result has left every payload and every timestamp
\* as they were; and what a fetch answers from the cache is a success.
C30_OnlySuccessCached ==
    [][/\ \A k \in DOMAIN cache' : cache'[k].status = "success"
       /\ \A k \in DOMAIN cache \cup DOMAIN cache' \cup DOMAIN cache_timestamps'
             \cup DOMAIN cache_timestamps :
             Entry(cache, cache_timestamps, k) # Entry(cache', cache_timestamps', k)
             => \E i \in TaskIds :
                   /\ Putting(task[i])
                   /\ KeyOfTask(task[i]) = k
                   /\ task[i].result.status = "success"
       /\ \A i \in TaskIds :
             /\ (task'[i].result.status = "error" /\ task[i].result.status # "error")
                  => /\ ~Putting(task[i]) /\ task'[i].pc = "done"
                     /\ cache' = cache
                     /\ cache_timestamps' = cache_timestamps
             /\ (task[i].pc \in {"ready", "iready"} /\ task'[i].pc = "done")
                  => task'[i].result.status = "success"]_vars

\* C30 witness: a fetch of an index has ended in an error while the cache
\* holds an older, expired entry of that index, and a stock is cached too.
C30_Witness ==
    \E i \in TaskIds :
       /\ task[i].pc = "done"
       /\ task[i].result.status = "error"
       /\ task[i].symbol \in IndexSymbols
       /\ IndexKey(task[i].symbol) \in DOMAIN cache
       /\ ~IsCacheValid(cache_timestamps, IndexKey(task[i].symbol), now)
       /\ \E s \in Symbols : StockKey(s) \in DOMAIN cache

\* this step is a run of a session function
SessionStep == sessionRet'.turn # sessionRet.turn
\* this step ran load_session
LoadStep == SessionStep /\ sessionRet'.loaded.called
\* the last saved session is there and within its day
Fresh == saved.valid /\ sessionNow <= saved.at + SessionLifetime
\* dict d holds the credentials c
HoldsCredentials(d, c) ==
    /\ d["api_key"] = c.api_key
    /\ d["api_secret"] = c.api_secret
    /\ d["access_token"] = c.access_token

RestoreStep == LoadStep /\ sessionRet'.fn \in {"main", "refresh"}
\* the session state restore_session_to_streamlit started from
StateBefore ==
    IF sessionRet'.fn = "main" THEN InitializeSessionState(session_state)
    ELSE session_state

C28_RateLimit ==
    /\ api_call_count <= ApiLimitPerMinute
    /\ liveLast.made =>
          /\ liveLast.before + liveLast.issued <= ApiLimitPerMinute
          /\ liveLast.elapsed >= ResetSeconds => liveLast.reset

\* C29 as claimed: with a list cached, a call more than 3600 seconds after
\* the last fetch asks the broker again, whatever the elapsed time, more
\* than a day included; a call at most 3600 seconds after it asks nothing
\* and returns a copy of the cached list.
C29_RefetchAfterHour ==
    (universeLast.made /\ universeLast.had # None)
    => /\ universeLast.elapsed > UniverseCacheSeconds => universeLast.fetched
       /\ universeLast.elapsed <= UniverseCacheSeconds
            => /\ ~universeLast.fetched
               /\ universeLast.returned =
                     [copy |-> TRUE, rows |-> universeLast.had.rows]

\* the fields every decision record has
CommonFields == {"decision", "confidence", "reason", "score"}
\* the fields of the vote counts
CountFields == {"bullish_signals", "bearish_signals"}
\* the label, the confidence, the score and the rationale of d are well formed
WellFormed(d) ==
    /\ CommonFields \subseteq DOMAIN d
    /\ d.decision \in {"BUY", "SELL", "HOLD"}
    /\ d.confidence \in {"Low", "Medium", "High"}
    /\ d.score \in Int
    /\ d.reason # <<>>
\* generate_trading_decision left by its insufficient-data return or by its
\* exception handler
EarlyReturn(d) ==
    d.reason \in {<<"Insufficient data for analysis">>, <<"Analysis error">>}

\* C13 as claimed: every returned record, the insufficient-data and the error
\* record included, carries label, confidence, score, both counts and the
\* rationale.
C13_AllFieldsOnEveryPath ==
    enginePc = "decided" =>
        /\ WellFormed(decision)
        /\ CountFields \subseteq DOMAIN decision
        /\ decision.bullish_signals \in Nat
        /\ decision.bearish_signals \in Nat

\* C13 (as amended): every returned record carries a label in {BUY, SELL,
\* HOLD}, a confidence in {Low, Medium, High}, a numeric score and a
\* rationale; the records of the scoring path carry both counts as well, the
\* insufficient-data and the error record carry neither.
C13_RecordFields ==
    enginePc = "decided" =>
        /\ WellFormed(decision)
        /\ IF EarlyReturn(decision)
           THEN DOMAIN decision = CommonFields
           ELSE /\ DOMAIN decision = CommonFields \cup CountFields
                /\ decision.bullish_signals \in Nat
                /\ decision.bearish_signals \in Nat

\* C13 witness: the exception handler's record, returned for a daily entry
\* without 'ohlcv', has the four common fields only.
C13_Witness ==
    /\ enginePc = "decided"
    /\ "daily" \in DOMAIN analysis.timeframes
    /\ "indicators" \in DOMAIN analysis.timeframes["daily"]
    /\ "ohlcv" \notin DOMAIN analysis.timeframes["daily"]
    /\ decision = AnalysisError
    /\ DOMAIN decision = CommonFields

\* C17: in every returned record with vote counts the score is the bullish
\* count minus the bearish count, neither count is negative, and each count is
\* the sum of the votes the six rules cast on this call's analysis.
C17_ScoreIsDifference ==
    (enginePc = "decided" /\ HasCounts(decision)) =>
        LET tfs == analysis.timeframes
            vs == Votes(tfs["daily"], Min30Indicators(tfs))
        IN /\ decision.score =
                 decision.bullish_signals - decision.bearish_signals
           /\ decision.bullish_signals >= 0
           /\ decision.bearish_signals >= 0
           /\ decision.bullish_signals =
                 vs[1].bullish + vs[2].bullish + vs[3].bullish
                 + vs[4].bullish + vs[5].bullish + vs[6].bullish
           /\ decision.bearish_signals =
                 vs[1].bearish + vs[2].bearish + vs[3].bearish
                 + vs[4].bearish + vs[5].bearish + vs[6].bearish

\* C17 witness: a record with votes of both kinds and a negative score.
C17_Witness ==
    /\ enginePc = "decided"
    /\ HasCounts(decision)
    /\ decision.bullish_signals > 0
    /\ decision.bearish_signals > decision.bullish_signals
    /\ decision.score < 0

=============================================================================
